---- MODULE Spec2Model ----
(***************************************************************************)
(* Context-expansion arbitration engine of mypackage.cluster_selection:    *)
(* SummaryCandidate / SummaryCandidate.State / SelectedCluster and the     *)
(* round loop of context_expansion_generator.                              *)
(*                                                                         *)
(* Conventions.  Python lists are sequences; list positions, selected      *)
(* states and cluster positions keep Python's 0-based values, so PyAt      *)
(* translates an index.  Scores and improvement scores are integers in     *)
(* units of 0.001, the resolution of round(x, 3).  A dict is a function    *)
(* whose DOMAIN is its key set.  pc is the position of the engine.         *)
(***************************************************************************)
EXTENDS Integers, Sequences, FiniteSets, TLC

VARIABLES candidates, timestamp, prev_round_forbids, expanded, seen_chains,
          current_round_forbids, marked_for_deletion, pos, pc, oracle,
          num_chains, n_initial, round_begin, emitted, contended, call,
          arbitration

vars == <<candidates, timestamp, prev_round_forbids, expanded, seen_chains,
          current_round_forbids, marked_for_deletion, pos, pc, oracle,
          num_chains, n_initial, round_begin, emitted, contended, call,
          arbitration>>

engine_vars == <<timestamp, prev_round_forbids, expanded, seen_chains,
                 current_round_forbids, marked_for_deletion, pos, pc,
                 round_begin, emitted, contended, arbitration>>

(* ---------------------------- bounds ----------------------------------- *)
ShortChains == 2
MaxCandidates == 2
ScoreLevels == 2
ScoreStep == 40
LongChains == 6
WordsPerChain == 1
MaxRounds == 19
MaxGrowths == 1

(* ------------------------ program constants ---------------------------- *)
Threshold == 10
None == -99
Latest == -1
RerankBase == 6666

Chains == 0 .. (num_chains - 1)
Scores == {ScoreStep * k : k \in 0 .. (ScoreLevels - 1)}
(* the cluster of the long document, and the scores its oracle may give a  *)
(* span: n - 1 or n steps for n chains, a single chain also 2 steps        *)
LongCluster == {0, 3, 4}
Band(chains) ==
  {ScoreStep * k : k \in (Len(chains) - 1) .. Len(chains)}
    \cup (IF Len(chains) = 1 THEN {ScoreStep * 2} ELSE {})
(* the cluster of the finely scored document, one chain longer than the    *)
(* long one, and the scores its oracle may give a span: steps of a quarter *)
(* of ScoreStep, so that a growth can raise the score without paying       *)
FineChains == LongChains + 1
FineCluster == {1, 4, 5}
Fine(chains) ==
  IF Len(chains) = 1 THEN {0}
  ELSE IF Len(chains) = 2
    THEN {ScoreStep * 2, ScoreStep * 2 + ScoreStep \div 4}
  ELSE IF Len(chains) = 3
    THEN {ScoreStep * 2 + ScoreStep \div 4, ScoreStep * 2 + ScoreStep \div 2,
          ScoreStep * 3 + ScoreStep \div 4}
  ELSE {ScoreStep * Len(chains)}
ScoreChoices(chains) ==
  IF num_chains <= ShortChains THEN Scores
  ELSE IF num_chains = FineChains THEN Fine(chains)
  ELSE Band(chains)

(* ------------------------- Python list helpers ------------------------- *)
Min(a, b) == IF a < b THEN a ELSE b
Max(a, b) == IF a > b THEN a ELSE b
PyIdx(i, n) == IF i < 0 THEN i + n ELSE i
PyValid(i, n) == i # None /\ PyIdx(i, n) >= 0 /\ PyIdx(i, n) < n
PyAt(s, i) == s[PyIdx(i, Len(s)) + 1]
PyPop(s, i) == [k \in 1 .. (Len(s) - 1) |->
                  IF k < PyIdx(i, Len(s)) + 1 THEN s[k] ELSE s[k + 1]]
Range(s) == {s[k] : k \in 1 .. Len(s)}
SeqFromTo(a, b) == [k \in 1 .. (IF b >= a THEN b - a + 1 ELSE 0) |-> a + k - 1]

(* round(num / den, 3) on milli-units: nearest integer, ties to even *)
Round3(num, den) ==
  LET q == num \div den
      r == num % den
  IN IF 2 * r < den THEN q
     ELSE IF 2 * r > den THEN q + 1
     ELSE IF q % 2 = 0 THEN q ELSE q + 1

(* ------------------- chain store and relevance oracle ------------------- *)
(* SentenceChain.next / prev with force_list=True: up to n neighbours,     *)
(* fewer at the end of the document.                                       *)
ChainNext(ci, n) == SeqFromTo(ci + 1, Min(ci + n, num_chains - 1))
ChainPrev(ci, n) == SeqFromTo(Max(ci - n, 0), ci - 1)
(* len(State.text.split()) *)
WordCount(chains) == Len(chains) * WordsPerChain
(* RelevanceEvaluator.predict(chains, join=True) under the oracle orc *)
Predict(orc, chains) == orc[chains]

(* --------------------------- State ------------------------------------- *)
NewState(chain, score) ==
  [chains |-> <<chain>>, score |-> score, actions |-> <<>>,
   timestamp |-> 0, improvement_score |-> 0]

from_state(state, action) ==
  [chains |-> state.chains,
   score |-> state.score,
   actions |-> Append(state.actions, action),
   timestamp |-> state.timestamp,
   improvement_score |-> state.improvement_score]

first_index(state) == state.chains[1]
last_index(state) == state.chains[Len(state.chains)]
index_range(state) == first_index(state) .. last_index(state)
ChainSet(state) == Range(state.chains)

(* --------------------------- SummaryCandidate --------------------------- *)
NewCandidate(chain, score) ==
  [chain |-> chain, selected_state |-> Latest,
   history |-> <<NewState(chain, score)>>, expandable |-> TRUE]

HasContext(c) == PyValid(c.selected_state, Len(c.history))
context(c) == PyAt(c.history, c.selected_state)
score(c) == context(c).score

(* branch_from defaulting shared by the three growth operations *)
BranchFrom(c, branch_from) ==
  IF branch_from = None
    THEN IF c.selected_state = Latest THEN Len(c.history) - 1
         ELSE c.selected_state
    ELSE branch_from

(* GrownChains with the chains of a left growth added after the parent's  *)
(* chains instead of before them                                           *)
GrownChains_left_appended(dir, ch, n) ==
  IF dir = "right" THEN ch \o ChainNext(ch[Len(ch)], n)
  ELSE IF dir = "left" THEN ch \o ChainPrev(ch[1], n)
  ELSE LET fwd == ch \o ChainNext(ch[Len(ch)], n)
       IN ChainPrev(fwd[1], n) \o fwd

(* the chains of the state a growth operation creates from parent chains *)
GrownChains(dir, ch, n) ==
  IF dir = "right" THEN ch \o ChainNext(ch[Len(ch)], n)
  ELSE IF dir = "left" THEN ChainPrev(ch[1], n) \o ch
  ELSE LET fwd == ch \o ChainNext(ch[Len(ch)], n)
       IN ChainPrev(fwd[1], n) \o fwd

(* Grow where the new state shares its list of chains with its parent, so  *)
(* that extending the one extends the other                                *)
Grow_shared_chains(c, dir, n, branch_from, ts, orc) ==
  LET bf == BranchFrom(c, branch_from)
      copy == from_state(PyAt(c.history, bf), <<dir, n>>)
      chains == GrownChains(dir, copy.chains, n)
      sc == Predict(orc, chains)
      h0 == [c.history EXCEPT ![PyIdx(bf, Len(c.history)) + 1].chains = chains]
      h1 == Append(h0, [copy EXCEPT !.timestamp = ts,
                                    !.chains = chains,
                                    !.score = sc])
      added_length == WordCount(chains)
      imp == IF added_length > 0
               THEN Round3(sc - PyAt(h1, bf).score, added_length)
               ELSE copy.improvement_score
  IN [c EXCEPT !.history =
        [h1 EXCEPT ![Len(h1)].improvement_score = imp]]

(* Grow where the improvement score is computed only when chains were      *)
(* added, and is otherwise the one copied from the parent                  *)
Grow_density_kept(c, dir, n, branch_from, ts, orc) ==
  LET bf == BranchFrom(c, branch_from)
      copy == from_state(PyAt(c.history, bf), <<dir, n>>)
      chains == GrownChains(dir, copy.chains, n)
      sc == Predict(orc, chains)
      h1 == Append(c.history, [copy EXCEPT !.timestamp = ts,
                                           !.chains = chains,
                                           !.score = sc])
      added_length == WordCount(chains) - WordCount(copy.chains)
      imp == IF added_length > 0
               THEN Round3(sc - PyAt(h1, bf).score, WordCount(chains))
               ELSE copy.improvement_score
  IN [c EXCEPT !.history =
        [h1 EXCEPT ![Len(h1)].improvement_score = imp]]

(* the tail common to the growth operations: append the copy, stamp it,    *)
(* extend its chains, score it, and compute the improvement score against  *)
(* history[branch_from] as indexed after the append.                       *)
Grow(c, dir, n, branch_from, ts, orc) ==
  LET bf == BranchFrom(c, branch_from)
      copy == from_state(PyAt(c.history, bf), <<dir, n>>)
      chains == GrownChains(dir, copy.chains, n)
      sc == Predict(orc, chains)
      h1 == Append(c.history, [copy EXCEPT !.timestamp = ts,
                                           !.chains = chains,
                                           !.score = sc])
      added_length == WordCount(chains)
      imp == IF added_length > 0
               THEN Round3(sc - PyAt(h1, bf).score, added_length)
               ELSE copy.improvement_score
  IN [c EXCEPT !.history =
        [h1 EXCEPT ![Len(h1)].improvement_score = imp]]

add_right_context(c, n, branch_from, ts, orc) ==
  IF n <= 0 \/ ~c.expandable THEN c
  ELSE Grow(c, "right", n, branch_from, ts, orc)

add_left_context(c, n, branch_from, ts, orc) ==
  IF n <= 0 \/ ~c.expandable THEN c
  ELSE Grow(c, "left", n, branch_from, ts, orc)

add_bidirectional_context(c, n, branch_from, ts, orc) ==
  IF n <= 0 \/ ~c.expandable THEN c
  ELSE Grow(c, "bidirectional", n, branch_from, ts, orc)

(* the round filter alone: forbidden chains are not looked at *)
OptimizeTemp_unconstrained(c, ts, constraints) ==
  {i \in 0 .. (Len(c.history) - 1) :
     ts # None => c.history[i + 1].timestamp = ts}

(* optimize: returns the candidate after the call and the returned index.  *)
(* ts = None is "no timestamp filter"; constraints is the set of forbidden *)
(* chain indices, the empty set standing for constraints=None (the filter  *)
(* of an empty list keeps every index).  temp is kept as the set of the    *)
(* indices of the ascending list, and max() returns its first maximum.     *)
OptimizeTemp(c, ts, constraints) ==
  {i \in 0 .. (Len(c.history) - 1) :
     /\ (ts # None => c.history[i + 1].timestamp = ts)
     /\ ChainSet(c.history[i + 1]) \cap constraints = {}}

OptimizeHistory(c, threshold) ==
  IF c.selected_state # None
    THEN [c.history EXCEPT
            ![PyIdx(c.selected_state, Len(c.history)) + 1].improvement_score
               = threshold]
    ELSE c.history

(* the first index of temp whose state has the least density *)
FirstMin(temp, h) ==
  CHOOSE i \in temp :
    \A j \in temp :
      \/ h[j + 1].improvement_score > h[i + 1].improvement_score
      \/ (h[j + 1].improvement_score = h[i + 1].improvement_score /\ i <= j)

FirstMax(temp, h) ==
  CHOOSE i \in temp :
    \A j \in temp :
      \/ h[j + 1].improvement_score < h[i + 1].improvement_score
      \/ (h[j + 1].improvement_score = h[i + 1].improvement_score /\ i <= j)

(* optimize that ignores stop_expansion: an unchanged selection leaves the *)
(* candidate expandable                                                    *)
optimize_never_stops(c, stop_expansion, ts, constraints, threshold) ==
  LET temp == OptimizeTemp(c, ts, constraints)
      h1 == OptimizeHistory(c, threshold)
      c1 == [c EXCEPT !.history = h1]
  IN IF temp # {}
       THEN LET new_state == FirstMax(temp, h1)
            IN [c |-> [c1 EXCEPT !.selected_state = new_state],
                ret |-> new_state]
       ELSE [c |-> [c1 EXCEPT !.expandable = FALSE], ret |-> None]

(* optimize that assigns expandable from whether the selection changed,    *)
(* whatever stop_expansion says                                            *)
optimize_expandable_assigned(c, stop_expansion, ts, constraints, threshold) ==
  LET temp == OptimizeTemp(c, ts, constraints)
      h1 == OptimizeHistory(c, threshold)
      c1 == [c EXCEPT !.history = h1]
  IN IF temp # {}
       THEN LET new_state == FirstMax(temp, h1)
            IN [c |-> [c1 EXCEPT
                         !.expandable = (c.selected_state # new_state),
                         !.selected_state = new_state],
                ret |-> new_state]
       ELSE [c |-> [c1 EXCEPT !.expandable = FALSE], ret |-> None]

optimize(c, stop_expansion, ts, constraints, threshold) ==
  LET temp == OptimizeTemp(c, ts, constraints)
      h1 == OptimizeHistory(c, threshold)
      c1 == [c EXCEPT !.history = h1]
  IN IF temp # {}
       THEN LET new_state == FirstMax(temp, h1)
            IN [c |-> [c1 EXCEPT
                         !.expandable =
                            IF stop_expansion /\ c.selected_state = new_state
                              THEN FALSE ELSE @,
                         !.selected_state = new_state],
                ret |-> new_state]
       ELSE [c |-> [c1 EXCEPT !.expandable = FALSE], ret |-> None]

(* clear_history that keeps the latest state of the history and the        *)
(* exceptions, whichever state is selected                                 *)
clear_history_latest_kept(c, exceptions) ==
  LET preserved == exceptions \cup {Len(c.history) - 1}
      h1 == SelectSeq([k \in 1 .. Len(c.history) |->
                         [i |-> k - 1, s |-> c.history[k]]],
                      LAMBDA e : e.i \in preserved)
  IN [c EXCEPT !.history = [k \in 1 .. Len(h1) |-> h1[k].s],
               !.selected_state = Latest]

(* clear_history(exceptions): keep the selected state and the exceptions *)
clear_history(c, exceptions) ==
  LET had_latest_state == c.selected_state = Latest
      sel == IF had_latest_state THEN Len(c.history) - 1 ELSE c.selected_state
      preserved == exceptions \cup {sel}
      h1 == SelectSeq([k \in 1 .. Len(c.history) |->
                         [i |-> k - 1, s |-> c.history[k]]],
                      LAMBDA e : e.i \in preserved)
      new_i == Cardinality({i \in preserved : i < sel})
  IN [c EXCEPT !.history = [k \in 1 .. Len(h1) |-> h1[k].s],
               !.selected_state = IF had_latest_state THEN Latest ELSE new_i]

(* clear_timestamp that removes nothing *)
clear_timestamp_nothing_cleared(c, ts) == [err |-> FALSE, c |-> c]

(* clear_timestamp that filters the history and leaves the index of the    *)
(* selected state where it was                                             *)
clear_timestamp_index_kept(c, ts) ==
  IF context(c).timestamp = ts
    THEN [err |-> TRUE, c |-> c]
    ELSE
      LET had_latest_state == c.selected_state = Latest
          h1 == SelectSeq(c.history, LAMBDA s : s.timestamp # ts)
      IN [err |-> FALSE,
          c |-> [c EXCEPT
                   !.history = h1,
                   !.selected_state =
                      IF had_latest_state THEN Latest
                      ELSE Max(0, Min(c.selected_state, Len(h1) - 1))]]

(* clear_timestamp(ts): err is the raised usage error *)
clear_timestamp(c, ts) ==
  IF context(c).timestamp = ts
    THEN [err |-> TRUE, c |-> c]
    ELSE
      LET had_latest_state == c.selected_state = Latest
          sel == IF had_latest_state THEN Len(c.history) - 1
                 ELSE c.selected_state
          old_history == c.history
          h1 == SelectSeq(old_history, LAMBDA s : s.timestamp # ts)
          removed_before ==
            Cardinality({i \in 0 .. (Len(old_history) - 1) :
                           old_history[i + 1].timestamp = ts /\ i < sel})
      IN [err |-> FALSE,
          c |-> [c EXCEPT
                   !.history = h1,
                   !.selected_state =
                      IF had_latest_state THEN Latest
                      ELSE Max(0, Min(sel - removed_before, Len(h1) - 1))]]

(* --------------------------- SelectedCluster ---------------------------- *)
(* tuple(candidate.index_range): every index from the first chain of the  *)
(* selected state to its last                                              *)
RangeKey(c) == SeqFromTo(first_index(context(c)), last_index(context(c)))

(* remove_duplicate_candidates that keeps the last candidate of each range *)
remove_duplicate_candidates_last_kept(cs) ==
  LET keepAt(k) ==
        \A j \in (k + 1) .. Len(cs) : RangeKey(cs[j]) # RangeKey(cs[k])
      tagged == [k \in 1 .. Len(cs) |-> [k |-> k, c |-> cs[k]]]
      kept == SelectSeq(tagged, LAMBDA e : keepAt(e.k))
  IN [k \in 1 .. Len(kept) |-> kept[k].c]

(* remove_duplicate_candidates: keep the first candidate of each range *)
remove_duplicate_candidates(cs) ==
  LET keepAt(k) == \A j \in 1 .. (k - 1) : RangeKey(cs[j]) # RangeKey(cs[k])
      tagged == [k \in 1 .. Len(cs) |-> [k |-> k, c |-> cs[k]]]
      kept == SelectSeq(tagged, LAMBDA e : keepAt(e.k))
  IN [k \in 1 .. Len(kept) |-> kept[k].c]

(* key=score alone, and a candidate moves ahead of its equals *)
RankBefore_ties_swapped(a, b) == score(a) >= score(b)

(* key=(score, chain_index), reverse=True *)
RankBefore_higher_anchor_first(a, b) ==
  \/ score(a) > score(b)
  \/ (score(a) = score(b) /\ a.chain > b.chain)

(* key=(score, 6666 - chain_index), reverse=True: a goes before b *)
RankBefore(a, b) ==
  \/ score(a) > score(b)
  \/ (score(a) = score(b)
      /\ RerankBase - a.chain > RerankBase - b.chain)

RECURSIVE InsertRanked(_, _)
InsertRanked(sorted, c) ==
  IF sorted = <<>> THEN <<c>>
  ELSE IF RankBefore(c, sorted[Len(sorted)])
         THEN Append(InsertRanked(SubSeq(sorted, 1, Len(sorted) - 1), c),
                     sorted[Len(sorted)])
         ELSE Append(sorted, c)

RECURSIVE rerank_candidates(_)
rerank_candidates(cs) ==
  IF cs = <<>> THEN <<>>
  ELSE InsertRanked(rerank_candidates(SubSeq(cs, 1, Len(cs) - 1)),
                    cs[Len(cs)])

(* rescore_candidates: the selected state of every candidate is scored     *)
(* again on its chains                                                     *)
rescore_candidates(cs, orc) ==
  [k \in 1 .. Len(cs) |->
     [cs[k] EXCEPT
        !.history[PyIdx(cs[k].selected_state, Len(cs[k].history)) + 1].score
           = Predict(orc, context(cs[k]).chains)]]

(* sorted(candidates, key=first_index): stable, ascending *)
RECURSIVE InsertByFirstIndex(_, _)
InsertByFirstIndex(sorted, c) ==
  IF sorted = <<>> THEN <<c>>
  ELSE IF first_index(context(c)) < first_index(context(sorted[Len(sorted)]))
         THEN Append(InsertByFirstIndex(SubSeq(sorted, 1, Len(sorted) - 1), c),
                     sorted[Len(sorted)])
         ELSE Append(sorted, c)

RECURSIVE SortByFirstIndex(_)
SortByFirstIndex(cs) ==
  IF cs = <<>> THEN <<>>
  ELSE InsertByFirstIndex(SortByFirstIndex(SubSeq(cs, 1, Len(cs) - 1)),
                          cs[Len(cs)])

(* s[i:] of a Python list *)
PySliceFrom(s, i) ==
  LET from == IF i < 0 THEN Max(Len(s) + i, 0) ELSE Min(i, Len(s))
  IN SubSeq(s, from + 1, Len(s))

(* prev.context.chains += more *)
ExtendContext(c, more) ==
  [c EXCEPT !.history[PyIdx(c.selected_state, Len(c.history)) + 1].chains
               = @ \o more]

(* lines 568-583: does the scan merge candidate into prev, and with what *)
SameSign(prev, candidate, threshold) ==
  (score(prev) - threshold) * (score(candidate) - threshold) >= 0

MergeStep(prev, candidate, threshold) ==
  LET pr == context(prev)
      cr == context(candidate)
      start == first_index(cr)
      extra_chains == (last_index(cr) + 1) - (last_index(pr) + 1)
  IN IF ~SameSign(prev, candidate, threshold)
       THEN [merged |-> FALSE, prev |-> candidate]
     ELSE IF start \in index_range(pr)
       THEN [merged |-> TRUE,
             prev |-> ExtendContext(prev,
                        PySliceFrom(cr.chains, Len(cr.chains) - extra_chains))]
     ELSE IF start = last_index(pr) + 1
       THEN [merged |-> TRUE, prev |-> ExtendContext(prev, cr.chains)]
     ELSE [merged |-> FALSE, prev |-> candidate]

(* lines 564-585: the scan over the candidates sorted by first index *)
RECURSIVE MergeScan(_, _, _, _)
MergeScan(prev, rest, keep, threshold) ==
  IF rest = <<>> THEN Append(keep, prev)
  ELSE LET r == MergeStep(prev, Head(rest), threshold)
       IN MergeScan(r.prev, Tail(rest),
                    IF r.merged THEN keep ELSE Append(keep, prev),
                    threshold)

(* lines 562-587: the candidates kept by the merge, before they are scored *)
(* again; the list must not be empty (line 564)                            *)
MergeKeep(cs, threshold) ==
  LET sorted == SortByFirstIndex(cs)
  IN MergeScan(Head(sorted), Tail(sorted), <<>>, threshold)

merge_candidates(cs, threshold, orc) ==
  rerank_candidates(rescore_candidates(MergeKeep(cs, threshold), orc))

(* ------------------------------ dict helpers ---------------------------- *)
DictSet(d, k, v) == [x \in (DOMAIN d) \cup {k} |-> IF x = k THEN v ELSE d[x]]
EmptyDict == [x \in {} |-> 0]

RECURSIVE DictSetAll(_, _, _)
DictSetAll(d, keys, v) ==
  IF keys = {} THEN d
  ELSE LET k == CHOOSE x \in keys : TRUE
       IN DictSetAll(DictSet(d, k, v), keys \ {k}, v)

(* contended records <<X, Y, u>>: the candidate anchored at X held a       *)
(* selected state containing chain u while chain u was claimed by the      *)
(* candidate anchored at Y (lines 105, 132 and 193 are where the engine    *)
(* meets such a pair).                                                     *)
Contests(cs, owner, c, chs) ==
  {<<c.chain, cs[owner[u] + 1].chain, u>> : u \in chs}

NoCall == [op |-> "none", count |-> 0]

(* the record of a call of optimize on the candidate c at position k *)
OptimizeCall(k, c, stop_expansion, ts, constraints, threshold, count) ==
  LET r == optimize(c, stop_expansion, ts, constraints, threshold)
  IN [op |-> "optimize", k |-> k, pre |-> c,
      stop_expansion |-> stop_expansion, ts |-> ts,
      constraints |-> constraints, threshold |-> threshold,
      post |-> r.c, ret |-> r.ret, count |-> count]

(* the record of a call of a growth operation *)
GrowCall(op, k, c, n, branch_from, ts, count) ==
  [op |-> op, k |-> k, pre |-> c, n |-> n, branch_from |-> branch_from,
   ts |-> ts, count |-> count]

(* arbitration records what the conflict loop met: begin is the candidate  *)
(* as its turn found it (line 109), met the one-chain contests of the      *)
(* round so far as <<position, chain, owner's position, owner's anchor,    *)
(* own score, owner's score>>, and last the latest pass of the loop with   *)
(* the state it started from.                                              *)
NoTurn == [chain |-> None]
NoPass == [kind |-> None]
NoArbitration == [begin |-> NoTurn, met |-> {}, last |-> NoPass]

Arbitrate(arb, cs, p, candidate, fcs, crf, marked) ==
  LET owners == [i \in 1 .. Len(fcs) |-> crf[fcs[i]]]
      rivals == [i \in 1 .. Len(fcs) |-> score(cs[owners[i] + 1])]
  IN [arb EXCEPT
        !.last = [kind |-> Len(fcs), pos |-> p, units |-> fcs,
                  owners |-> owners, rivals |-> rivals, pre |-> candidate,
                  marked |-> marked, forbids |-> crf],
        !.met = IF Len(fcs) = 1
                  THEN @ \cup {<<p, fcs[1], owners[1],
                                  cs[owners[1] + 1].chain,
                                  score(candidate), rivals[1]>>}
                  ELSE @]

(* ------------------------------- Init ----------------------------------- *)
(* evaluate_chains: one seed candidate per chain of the cluster, sorted by  *)
(* decreasing score (ties in any order)                                    *)
SeedCluster(n, anchors, sc) ==
  /\ \A i, j \in 1 .. n : i < j => anchors[i] # anchors[j]
  /\ \A i, j \in 1 .. n : i < j => sc[i] >= sc[j]
  /\ candidates = [k \in 1 .. n |-> NewCandidate(anchors[k], sc[k])]
  /\ oracle = [ch \in {<<anchors[k]>> : k \in 1 .. n} |->
                 sc[CHOOSE k \in 1 .. n : anchors[k] = ch[1]]]

(* every cluster of up to MaxCandidates chains of a short document, under  *)
(* every oracle over Scores                                                *)
InitShort ==
  /\ num_chains \in 1 .. ShortChains
  /\ \E n \in 0 .. Min(MaxCandidates, num_chains) :
       \E anchors \in [1 .. n -> 0 .. (num_chains - 1)],
          sc \in [1 .. n -> Scores] :
         SeedCluster(n, anchors, sc)

(* the cluster LongCluster of a document of LongChains chains, under every *)
(* oracle within Band                                                      *)
InitLong ==
  /\ num_chains = LongChains
  /\ \E anchors \in [1 .. Cardinality(LongCluster) -> LongCluster],
        sc \in [1 .. Cardinality(LongCluster) -> Band(<<0>>)] :
       SeedCluster(Cardinality(LongCluster), anchors, sc)

(* the cluster FineCluster of a document of FineChains chains, under every *)
(* oracle within Fine                                                      *)
InitFine ==
  /\ num_chains = FineChains
  /\ \E anchors \in [1 .. Cardinality(FineCluster) -> FineCluster],
        sc \in [1 .. Cardinality(FineCluster) -> Fine(<<0>>)] :
       SeedCluster(Cardinality(FineCluster), anchors, sc)

(* the state after lines 75-76 of the engine *)
Init ==
  /\ (InitShort \/ InitLong \/ InitFine)
  /\ timestamp = 0
  /\ prev_round_forbids = [is_none |-> TRUE, map |-> EmptyDict]
  /\ expanded = FALSE
  /\ seen_chains = {}
  /\ current_round_forbids = EmptyDict
  /\ marked_for_deletion = <<>>
  /\ pos = 0
  /\ pc = "round_start"
  /\ round_begin = <<>>
  /\ emitted = 0
  /\ contended = {}
  /\ call = NoCall
  /\ arbitration = NoArbitration
  /\ n_initial = Len(candidates)

(* ------------------------- engine: one round ---------------------------- *)
(* lines 78-85: top of the while loop *)
RoundStart ==
  /\ pc = "round_start"
  /\ expanded' = FALSE
  /\ seen_chains' = {}
  /\ current_round_forbids' = EmptyDict
  /\ marked_for_deletion' = [k \in 1 .. Len(candidates) |-> FALSE]
  /\ pos' = 0
  /\ round_begin' = candidates
  /\ arbitration' = [arbitration EXCEPT !.met = {}]
  /\ pc' = "for"
  /\ UNCHANGED <<candidates, timestamp, prev_round_forbids, oracle, emitted,
                 contended, call, num_chains, n_initial>>

(* lines 95-96: a candidate already marked for deletion is skipped *)
TurnMarked ==
  /\ pc = "for" /\ pos < Len(candidates)
  /\ marked_for_deletion[pos + 1]
  /\ pos' = pos + 1
  /\ UNCHANGED <<candidates, timestamp, prev_round_forbids, expanded,
                 seen_chains, current_round_forbids, marked_for_deletion, pc,
                 oracle, round_begin, emitted, contended, call, num_chains,
                 n_initial, arbitration>>

(* lines 98-102: a non-expandable candidate claims its chains *)
TurnFrozen ==
  /\ pc = "for" /\ pos < Len(candidates)
  /\ ~marked_for_deletion[pos + 1]
  /\ ~candidates[pos + 1].expandable
  /\ LET cs == ChainSet(context(candidates[pos + 1]))
     IN /\ seen_chains' = seen_chains \cup cs
        /\ current_round_forbids' = DictSetAll(current_round_forbids, cs, pos)
  /\ pos' = pos + 1
  /\ UNCHANGED <<candidates, timestamp, prev_round_forbids, expanded,
                 marked_for_deletion, pc, oracle, round_begin, emitted,
                 contended, call, num_chains, n_initial, arbitration>>

(* TurnForbidden that passes over the candidate without marking it *)
TurnForbidden_unmarked ==
  /\ pc = "for" /\ pos < Len(candidates)
  /\ ~marked_for_deletion[pos + 1]
  /\ candidates[pos + 1].expandable
  /\ candidates[pos + 1].chain \in seen_chains
  /\ contended' =
       contended \cup Contests(candidates, current_round_forbids,
                               candidates[pos + 1],
                               {candidates[pos + 1].chain})
  /\ pos' = pos + 1
  /\ UNCHANGED <<candidates, timestamp, prev_round_forbids, expanded,
                 seen_chains, current_round_forbids, marked_for_deletion, pc,
                 oracle, round_begin, emitted, call, num_chains, n_initial,
                 arbitration>>

(* lines 105-107: the anchor chain is already claimed this round *)
TurnForbidden ==
  /\ pc = "for" /\ pos < Len(candidates)
  /\ ~marked_for_deletion[pos + 1]
  /\ candidates[pos + 1].expandable
  /\ candidates[pos + 1].chain \in seen_chains
  /\ marked_for_deletion' = [marked_for_deletion EXCEPT ![pos + 1] = TRUE]
  /\ contended' =
       contended \cup Contests(candidates, current_round_forbids,
                               candidates[pos + 1],
                               {candidates[pos + 1].chain})
  /\ pos' = pos + 1
  /\ UNCHANGED <<candidates, timestamp, prev_round_forbids, expanded,
                 seen_chains, current_round_forbids, pc, oracle, round_begin,
                 emitted, call, num_chains, n_initial, arbitration>>

(* lines 111-116: solidify the selected state and refresh its timestamp *)
Solidify(c, ts) ==
  LET c1 == IF c.selected_state = Latest
              THEN [c EXCEPT !.selected_state = Len(c.history) - 1]
              ELSE c
  IN [c1 EXCEPT !.history[PyIdx(c1.selected_state, Len(c1.history)) + 1]
                   .timestamp = ts]

(* lines 118-126: the directions the branch policy grows *)
LastAction(c) == context(c).actions[Len(context(c).actions)]

BranchDirs(c) ==
  IF Len(context(c).actions) = 0 \/ LastAction(c)[1] = "bidirectional"
    THEN {"left", "right", "bidirectional"}
  ELSE IF LastAction(c)[1] = "left" THEN {"left"}
  ELSE IF LastAction(c)[1] = "right" THEN {"right"}
  ELSE {}

(* GrowBranches that grows the three states whatever the last action was *)
GrowBranches_always_three(c, ts, orc) ==
  LET branch_point == c.selected_state
      c1 == add_left_context(c, 1, None, ts, orc)
      c2 == add_right_context(c1, 1, branch_point, ts, orc)
  IN add_bidirectional_context(c2, 1, branch_point, ts, orc)

GrowBranches(c, ts, orc) ==
  IF Len(context(c).actions) = 0 \/ LastAction(c)[1] = "bidirectional"
    THEN LET branch_point == c.selected_state
             c1 == add_left_context(c, 1, None, ts, orc)
             c2 == add_right_context(c1, 1, branch_point, ts, orc)
         IN add_bidirectional_context(c2, 1, branch_point, ts, orc)
  ELSE IF LastAction(c)[1] = "left"
    THEN add_left_context(c, 1, None, ts, orc)
  ELSE IF LastAction(c)[1] = "right"
    THEN add_right_context(c, 1, None, ts, orc)
  ELSE c

(* TurnGrow whose optimize selects among the states of every round (no      *)
(* timestamp argument at line 128)                                         *)
TurnGrow_any_round ==
  /\ pc = "for" /\ pos < Len(candidates)
  /\ ~marked_for_deletion[pos + 1]
  /\ candidates[pos + 1].expandable
  /\ candidates[pos + 1].chain \notin seen_chains
  /\ LET c1 == Solidify(candidates[pos + 1], timestamp)
         needed == {GrownChains(d, context(c1).chains, 1) : d \in BranchDirs(c1)}
         fresh == needed \ DOMAIN oracle
     IN \E o2 \in [fresh -> UNION {ScoreChoices(k) : k \in fresh}] :
          /\ \A k \in fresh : o2[k] \in ScoreChoices(k)
          /\ oracle' = o2 @@ oracle
          /\ call' = OptimizeCall(pos, GrowBranches(c1, timestamp, oracle'),
                                  TRUE, None, {}, Threshold, 0)
          /\ candidates' = [candidates EXCEPT ![pos + 1] = call'.post]
  /\ arbitration' = [arbitration EXCEPT !.begin = candidates[pos + 1],
                                        !.last = NoPass]
  /\ pc' = "conflict"
  /\ UNCHANGED <<contended, timestamp, prev_round_forbids, expanded, seen_chains,
                 current_round_forbids, marked_for_deletion, pos, round_begin,
                 emitted, num_chains, n_initial>>

(* lines 109-128: grow the candidate and select among this round's states *)
TurnGrow ==
  /\ pc = "for" /\ pos < Len(candidates)
  /\ ~marked_for_deletion[pos + 1]
  /\ candidates[pos + 1].expandable
  /\ candidates[pos + 1].chain \notin seen_chains
  /\ LET c1 == Solidify(candidates[pos + 1], timestamp)
         needed == {GrownChains(d, context(c1).chains, 1) : d \in BranchDirs(c1)}
         fresh == needed \ DOMAIN oracle
     IN \E o2 \in [fresh -> UNION {ScoreChoices(k) : k \in fresh}] :
          /\ \A k \in fresh : o2[k] \in ScoreChoices(k)
          /\ oracle' = o2 @@ oracle
          /\ call' = OptimizeCall(pos, GrowBranches(c1, timestamp, oracle'),
                                  TRUE, timestamp, {}, Threshold, 0)
          /\ candidates' = [candidates EXCEPT ![pos + 1] = call'.post]
  /\ arbitration' = [arbitration EXCEPT !.begin = candidates[pos + 1],
                                        !.last = NoPass]
  /\ pc' = "conflict"
  /\ UNCHANGED <<contended, timestamp, prev_round_forbids, expanded, seen_chains,
                 current_round_forbids, marked_for_deletion, pos, round_begin,
                 emitted, num_chains, n_initial>>

(* line 132: the chains of the selected state already claimed this round *)
ForbiddenChains(c) ==
  SelectSeq(context(c).chains, LAMBDA ch : ch \in seen_chains)

(* lines 148 / 172: index of the first state of this round *)
InitialStateForTimestamp(c, ts) ==
  CHOOSE i \in 0 .. (Len(c.history) - 1) :
    /\ c.history[i + 1].timestamp = ts
    /\ \A j \in 0 .. (i - 1) : c.history[j + 1].timestamp # ts

(* lines 148-151: the candidate with its selected state popped *)
Dropped(c) ==
  [c EXCEPT !.history = PyPop(c.history, c.selected_state),
            !.selected_state = None]

(* lines 148-153: drop the selected state and select again in this round *)
DropAndReoptimize(c, ts, threshold) ==
  LET initial_state_for_this_timestamp == InitialStateForTimestamp(c, ts)
      c2 == optimize(Dropped(c), FALSE, ts, {}, threshold).c
  IN IF c2.selected_state = initial_state_for_this_timestamp
       THEN [c2 EXCEPT !.expandable = FALSE]
       ELSE c2

(* ConflictOne where the winner evicts the owner without taking over the   *)
(* chain in the ownership map                                              *)
ConflictOne_owner_kept(candidate, fc) ==
  LET owner == current_round_forbids[fc]
      other_candidate == candidates[owner + 1]
  IN IF score(candidate) > score(other_candidate)
       THEN /\ marked_for_deletion' =
                 [marked_for_deletion EXCEPT ![owner + 1] = TRUE]
            /\ pc' = "claim"
            /\ UNCHANGED <<candidates, call, current_round_forbids>>
       ELSE /\ candidates' =
                 [candidates EXCEPT
                    ![pos + 1] = DropAndReoptimize(candidate, timestamp,
                                                   Threshold)]
            /\ call' = OptimizeCall(pos, Dropped(candidate), FALSE, timestamp,
                                    {}, Threshold, 0)
            /\ pc' = "conflict"
            /\ UNCHANGED <<marked_for_deletion, current_round_forbids>>

(* lines 136-153: one forbidden chain *)
ConflictOne(candidate, fc) ==
  LET owner == current_round_forbids[fc]
      other_candidate == candidates[owner + 1]
  IN IF score(candidate) > score(other_candidate)
       THEN /\ marked_for_deletion' =
                 [marked_for_deletion EXCEPT ![owner + 1] = TRUE]
            /\ current_round_forbids' = DictSet(current_round_forbids, fc, pos)
            /\ pc' = "claim"
            /\ UNCHANGED <<candidates, call>>
       ELSE /\ candidates' =
                 [candidates EXCEPT
                    ![pos + 1] = DropAndReoptimize(candidate, timestamp,
                                                   Threshold)]
            /\ call' = OptimizeCall(pos, Dropped(candidate), FALSE, timestamp,
                                    {}, Threshold, 0)
            /\ pc' = "conflict"
            /\ UNCHANGED <<marked_for_deletion, current_round_forbids>>

(* ConflictTwo that reverts to the first state of the history (line 173)   *)
(* instead of the first state of this round                                *)
ConflictTwo_reverts_to_zero(candidate, fc1, fc2) ==
  LET owner1 == current_round_forbids[fc1]
      owner2 == current_round_forbids[fc2]
      other1 == candidates[owner1 + 1]
      other2 == candidates[owner2 + 1]
  IN /\ IF score(candidate) > score(other1) /\ score(candidate) > score(other2)
          THEN /\ marked_for_deletion' =
                    [marked_for_deletion EXCEPT ![owner1 + 1] = TRUE,
                                                ![owner2 + 1] = TRUE]
               /\ current_round_forbids' =
                    DictSet(DictSet(current_round_forbids, fc1, pos), fc2, pos)
               /\ UNCHANGED candidates
          ELSE /\ candidates' =
                    [candidates EXCEPT
                       ![pos + 1] =
                          [candidate EXCEPT !.selected_state = 0,
                                            !.expandable = FALSE]]
               /\ UNCHANGED <<marked_for_deletion, current_round_forbids>>
     /\ pc' = "claim"
     /\ UNCHANGED call

(* lines 155-175: two forbidden chains *)
ConflictTwo(candidate, fc1, fc2) ==
  LET owner1 == current_round_forbids[fc1]
      owner2 == current_round_forbids[fc2]
      other1 == candidates[owner1 + 1]
      other2 == candidates[owner2 + 1]
  IN /\ IF score(candidate) > score(other1) /\ score(candidate) > score(other2)
          THEN /\ marked_for_deletion' =
                    [marked_for_deletion EXCEPT ![owner1 + 1] = TRUE,
                                                ![owner2 + 1] = TRUE]
               /\ current_round_forbids' =
                    DictSet(DictSet(current_round_forbids, fc1, pos), fc2, pos)
               /\ UNCHANGED candidates
          ELSE /\ candidates' =
                    [candidates EXCEPT
                       ![pos + 1] =
                          [candidate EXCEPT
                             !.selected_state =
                                InitialStateForTimestamp(candidate, timestamp),
                             !.expandable = FALSE]]
               /\ UNCHANGED <<marked_for_deletion, current_round_forbids>>
     /\ pc' = "claim"
     /\ UNCHANGED call

(* lines 131-175: one pass of the conflict loop.  Reading the context of a *)
(* candidate whose selected_state is None raises TypeError ("crashed").    *)
(* With three or more forbidden chains no branch is taken and nothing      *)
(* changes, so the loop repeats forever ("spinning").                      *)
Conflict ==
  /\ pc = "conflict"
  /\ LET candidate == candidates[pos + 1]
     IN IF ~HasContext(candidate)
          THEN /\ pc' = "crashed"
               /\ UNCHANGED <<candidates, marked_for_deletion,
                              current_round_forbids, contended, call,
                              arbitration>>
          ELSE LET forbidden_chains == ForbiddenChains(candidate)
               IN /\ arbitration' =
                       Arbitrate(arbitration, candidates, pos, candidate,
                                 forbidden_chains, current_round_forbids,
                                 marked_for_deletion)
                  /\ contended' =
                       contended \cup Contests(candidates,
                                               current_round_forbids,
                                               candidate,
                                               Range(forbidden_chains))
                  /\ IF Len(forbidden_chains) = 0
                       THEN /\ pc' = "claim"
                            /\ UNCHANGED <<candidates, marked_for_deletion,
                                           current_round_forbids, call>>
                     ELSE IF Len(forbidden_chains) = 1
                       THEN ConflictOne(candidate, forbidden_chains[1])
                     ELSE IF Len(forbidden_chains) = 2
                       THEN ConflictTwo(candidate, forbidden_chains[1],
                                        forbidden_chains[2])
                     ELSE /\ pc' = "spinning"
                          /\ UNCHANGED <<candidates, marked_for_deletion,
                                         current_round_forbids, call>>
  /\ UNCHANGED <<timestamp, prev_round_forbids, expanded, seen_chains, pos,
                 oracle, round_begin, emitted, num_chains, n_initial>>

(* lines 191-200 left out: nobody below is made to select again *)
BackwardCompat_skipped(cs, marked, last, chs, p, crf, prev) ==
  [cs |-> cs, marked |-> marked, last |-> last]

(* lines 191-200: candidates below that held one of the chains last round  *)
(* are made to select again outside every chain claimed so far             *)
RECURSIVE BackwardCompat(_, _, _, _, _, _, _)
BackwardCompat(cs, marked, last, chs, p, crf, prev) ==
  IF chs = <<>> THEN [cs |-> cs, marked |-> marked, last |-> last]
  ELSE LET ch == Head(chs)
           pos_to_forbid == IF ch \in DOMAIN prev THEN prev[ch] ELSE None
       IN IF pos_to_forbid # None /\ pos_to_forbid # 0 /\ pos_to_forbid > p
            THEN LET r == OptimizeCall(pos_to_forbid, cs[pos_to_forbid + 1],
                                       FALSE, None, DOMAIN crf, Threshold, 0)
                 IN BackwardCompat(
                      [cs EXCEPT ![pos_to_forbid + 1] = r.post],
                      IF r.ret = None
                        THEN [marked EXCEPT ![pos_to_forbid + 1] = TRUE]
                        ELSE marked,
                      r, Tail(chs), p, crf, prev)
            ELSE BackwardCompat(cs, marked, last, Tail(chs), p, crf, prev)

(* lines 177-204: prune the previous round, claim, enforce, record growth *)
Claim ==
  /\ pc = "claim"
  /\ LET ct == clear_timestamp(candidates[pos + 1], timestamp - 1)
     IN IF ct.err
          THEN /\ pc' = "crashed"
               /\ UNCHANGED <<candidates, expanded, seen_chains,
                              current_round_forbids, marked_for_deletion, pos,
                              contended, call>>
          ELSE LET mine == ChainSet(context(ct.c)) \ seen_chains
                   crf == DictSetAll(current_round_forbids, mine, pos)
                   cs1 == [candidates EXCEPT ![pos + 1] = ct.c]
                   bc == IF prev_round_forbids.is_none
                           THEN [cs |-> cs1, marked |-> marked_for_deletion,
                                 last |-> call]
                           ELSE BackwardCompat(cs1, marked_for_deletion, call,
                                               context(ct.c).chains, pos, crf,
                                               prev_round_forbids.map)
               IN /\ seen_chains' = seen_chains \cup mine
                  /\ current_round_forbids' = crf
                  /\ candidates' = bc.cs
                  /\ marked_for_deletion' = bc.marked
                  /\ call' = bc.last
                  /\ expanded' = (expanded \/ bc.cs[pos + 1].expandable)
                  /\ contended' =
                       IF prev_round_forbids.is_none THEN contended
                       ELSE contended \cup
                              Contests(cs1, prev_round_forbids.map, ct.c,
                                       {u \in ChainSet(context(ct.c)) \cap
                                               DOMAIN prev_round_forbids.map :
                                          prev_round_forbids.map[u] > pos})
                  /\ pos' = pos + 1
                  /\ pc' = "for"
  /\ UNCHANGED <<timestamp, prev_round_forbids, oracle, round_begin, emitted,
                 num_chains, n_initial, arbitration>>

(* line 209 *)
Survivors(cs, marked) ==
  LET tagged == [k \in 1 .. Len(cs) |-> [k |-> k, c |-> cs[k]]]
      kept == SelectSeq(tagged, LAMBDA e : ~marked[e.k])
  IN [k \in 1 .. Len(kept) |-> kept[k].c]

(* lines 214-217: the last position holding a chain wins *)
PrevRoundForbids(cs) ==
  [ch \in UNION {ChainSet(context(cs[k])) : k \in 1 .. Len(cs)} |->
     CHOOSE p \in 0 .. (Len(cs) - 1) :
       /\ ch \in ChainSet(context(cs[p + 1]))
       /\ \A q \in (p + 1) .. (Len(cs) - 1) :
            ch \notin ChainSet(context(cs[q + 1]))]

(* lines 209-217 *)
EndOfRound ==
  /\ candidates' = rerank_candidates(remove_duplicate_candidates(
                      Survivors(candidates, marked_for_deletion)))
  /\ emitted' = emitted + 1
  /\ prev_round_forbids' = [is_none |-> FALSE,
                            map |-> PrevRoundForbids(candidates')]

(* another round whether or not somebody expanded *)
RoundContinue_unconditional ==
  /\ pc = "for" /\ pos >= Len(candidates)
  /\ timestamp < MaxRounds
  /\ EndOfRound
  /\ timestamp' = timestamp + 1
  /\ pc' = "round_start"
  /\ UNCHANGED <<expanded, seen_chains, current_round_forbids,
                 marked_for_deletion, pos, oracle, round_begin, contended,
                 call, num_chains, n_initial, arbitration>>

(* lines 209-222 when somebody expanded: another round *)
RoundContinue ==
  /\ pc = "for" /\ pos >= Len(candidates)
  /\ expanded
  /\ timestamp < MaxRounds
  /\ EndOfRound
  /\ timestamp' = timestamp + 1
  /\ pc' = "round_start"
  /\ UNCHANGED <<expanded, seen_chains, current_round_forbids,
                 marked_for_deletion, pos, oracle, round_begin, contended,
                 call, num_chains, n_initial, arbitration>>

(* leaving the loop whether or not somebody expanded *)
RoundBreak_unconditional ==
  /\ pc = "for" /\ pos >= Len(candidates)
  /\ EndOfRound
  /\ pc' = "clear"
  /\ UNCHANGED <<timestamp, expanded, seen_chains, current_round_forbids,
                 marked_for_deletion, pos, oracle, round_begin, contended,
                 call, num_chains, n_initial, arbitration>>

(* lines 209-220 when nobody expanded: leave the loop *)
RoundBreak ==
  /\ pc = "for" /\ pos >= Len(candidates)
  /\ ~expanded
  /\ EndOfRound
  /\ pc' = "clear"
  /\ UNCHANGED <<timestamp, expanded, seen_chains, current_round_forbids,
                 marked_for_deletion, pos, oracle, round_begin, contended,
                 call, num_chains, n_initial, arbitration>>

(* lines 227-228 *)
ClearHistory ==
  /\ pc = "clear"
  /\ candidates' = [k \in 1 .. Len(candidates) |->
                      clear_history(candidates[k], {})]
  /\ pc' = "done"
  /\ UNCHANGED <<timestamp, prev_round_forbids, expanded, seen_chains,
                 current_round_forbids, marked_for_deletion, pos, oracle,
                 round_begin, emitted, contended, call, num_chains, n_initial,
                 arbitration>>

Next ==
  \/ RoundStart
  \/ TurnMarked
  \/ TurnFrozen
  \/ TurnForbidden
  \/ TurnGrow
  \/ Conflict
  \/ Claim
  \/ RoundContinue
  \/ RoundBreak
  \/ ClearHistory

Spec == Init /\ [][Next]_vars

(* ------------------- the candidate's own operations --------------------- *)
(* A caller holding the freshly evaluated candidate of a short document    *)
(* calls the operations of SummaryCandidate directly: optimize any number  *)
(* of times, the growth operations at most MaxGrowths times in total       *)
(* (call.count counts them).  States grown here carry timestamp            *)
(* GrowthStamp, so that the timestamp filter of optimize separates them    *)
(* from the initial state.                                                 *)
GrowthStamp == 1
OpGrowths == {0, 1}
OpBranches == {None, Latest, 0}
OpTimestamps == {None, GrowthStamp}
OpConstraints == {{}, {num_chains - 1}}

InitOps == Init /\ num_chains <= ShortChains /\ Len(candidates) = 1

ApplyGrowth(op, c, n, branch_from, ts, orc) ==
  IF op = "add_right_context"
    THEN add_right_context(c, n, branch_from, ts, orc)
  ELSE IF op = "add_left_context"
    THEN add_left_context(c, n, branch_from, ts, orc)
  ELSE add_bidirectional_context(c, n, branch_from, ts, orc)

GrowthDir(op) ==
  IF op = "add_right_context" THEN "right"
  ELSE IF op = "add_left_context" THEN "left"
  ELSE "bidirectional"

OpGrowth(op) ==
  \E k \in 1 .. Len(candidates), n \in OpGrowths, branch_from \in OpBranches :
    LET c == candidates[k]
        parent == PyAt(c.history, BranchFrom(c, branch_from))
        needed == IF n <= 0 \/ ~c.expandable THEN {}
                  ELSE {GrownChains(GrowthDir(op), parent.chains, n)}
        fresh == needed \ DOMAIN oracle
    IN \E o2 \in [fresh -> Scores] :
         /\ oracle' = o2 @@ oracle
         /\ candidates' =
              [candidates EXCEPT
                 ![k] = ApplyGrowth(op, c, n, branch_from, GrowthStamp,
                                    oracle')]
         /\ call' = GrowCall(op, k, c, n, branch_from, GrowthStamp,
                             call.count + 1)

OpAddRight ==
  /\ pc = "round_start" /\ emitted = 0
  /\ call.count < MaxGrowths
  /\ OpGrowth("add_right_context")
  /\ UNCHANGED <<engine_vars, num_chains, n_initial>>

OpAddLeft ==
  /\ pc = "round_start" /\ emitted = 0
  /\ call.count < MaxGrowths
  /\ OpGrowth("add_left_context")
  /\ UNCHANGED <<engine_vars, num_chains, n_initial>>

OpAddBidirectional ==
  /\ pc = "round_start" /\ emitted = 0
  /\ call.count < MaxGrowths
  /\ OpGrowth("add_bidirectional_context")
  /\ UNCHANGED <<engine_vars, num_chains, n_initial>>

OpOptimize ==
  /\ pc = "round_start" /\ emitted = 0
  /\ \E k \in 1 .. Len(candidates), stop_expansion \in BOOLEAN,
        ts \in OpTimestamps, constraints \in OpConstraints :
       /\ call' = OptimizeCall(k, candidates[k], stop_expansion, ts,
                               constraints, Threshold, call.count)
       /\ candidates' = [candidates EXCEPT ![k] = call'.post]
  /\ UNCHANGED <<engine_vars, oracle, num_chains, n_initial>>

OpsNext ==
  \/ OpAddRight
  \/ OpAddLeft
  \/ OpAddBidirectional
  \/ OpOptimize

SpecOps == InitOps /\ [][OpsNext]_vars

(* ------------------- the history of one candidate ----------------------- *)
(* A caller holding one candidate grows it under the timestamps of         *)
(* HistStamps (the seed state carries timestamp 0, as the growths of the   *)
(* engine's first round do), selects with optimize and clears timestamps,  *)
(* in any order; call.count counts the growths, HistGrowths being the      *)
(* counts a growth may reach.                                              *)
HistStamps == {0, 1}
HistClears == HistStamps
HistGrowths == {1, 2}
HistOps == {"add_right_context", "add_left_context",
            "add_bidirectional_context"}

(* the record of a call of clear_timestamp *)
ClearCall(k, c, ts, count) ==
  LET r == clear_timestamp(c, ts)
  IN [op |-> "clear_timestamp", k |-> k, pre |-> c, ts |-> ts,
      err |-> r.err, post |-> r.c, count |-> count]

HistGrow ==
  /\ pc = "round_start" /\ emitted = 0
  /\ call.count + 1 \in HistGrowths
  /\ \E op \in HistOps, ts \in HistStamps, branch_from \in {None} :
       LET c == candidates[1]
           parent == PyAt(c.history, BranchFrom(c, branch_from))
           needed == IF ~c.expandable THEN {}
                     ELSE {GrownChains(GrowthDir(op), parent.chains, 1)}
           fresh == needed \ DOMAIN oracle
       IN \E o2 \in [fresh -> Scores] :
            /\ oracle' = o2 @@ oracle
            /\ candidates' =
                 [candidates EXCEPT
                    ![1] = ApplyGrowth(op, c, 1, branch_from, ts, oracle')]
            /\ call' = GrowCall(op, 1, c, 1, branch_from, ts, call.count + 1)
  /\ UNCHANGED <<engine_vars, num_chains, n_initial>>

HistOptimize ==
  /\ pc = "round_start" /\ emitted = 0
  /\ \E ts \in OpTimestamps, constraints \in OpConstraints :
       /\ call' = OptimizeCall(1, candidates[1], FALSE, ts, constraints,
                               Threshold, call.count)
       /\ candidates' = [candidates EXCEPT ![1] = call'.post]
  /\ UNCHANGED <<engine_vars, oracle, num_chains, n_initial>>

HistClearTimestamp ==
  /\ pc = "round_start" /\ emitted = 0
  /\ \E ts \in HistClears :
       /\ call' = ClearCall(1, candidates[1], ts, call.count)
       /\ candidates' = [candidates EXCEPT ![1] = call'.post]
  /\ UNCHANGED <<engine_vars, oracle, num_chains, n_initial>>

HistNext ==
  \/ HistGrow
  \/ HistOptimize
  \/ HistClearTimestamp

SpecHistory == InitOps /\ [][HistNext]_vars

(* --------------------- the cluster's own operations --------------------- *)
(* A caller holding a cluster of candidates on a document of up to         *)
(* ClusterChains chains, each grown around its anchor to some span and     *)
(* pruned to its selected state, calls remove_duplicate_candidates,        *)
(* rerank_candidates and merge_candidates in any order.                    *)
ClusterChains == 3
ClusterSizes == {0, 1, 2, 3}
(* a score under every threshold and one that is not; a threshold between *)
(* the two scores and one that the higher score equals                    *)
ClusterScores == {0, ScoreStep}
MergeThresholds == {ScoreStep \div 2, ScoreStep}

(* the actions that lead from the seed to the span lo .. hi *)
SpanActions(a, lo, hi) ==
  (IF lo < a THEN <<<<"left", a - lo>>>> ELSE <<>>)
    \o (IF hi > a THEN <<<<"right", hi - a>>>> ELSE <<>>)

SpanCandidate(a, lo, hi, sc) ==
  [chain |-> a, selected_state |-> Latest,
   history |-> <<[chains |-> SeqFromTo(lo, hi), score |-> sc,
                  actions |-> SpanActions(a, lo, hi), timestamp |-> 0,
                  improvement_score |-> 0]>>,
   expandable |-> TRUE]

(* an anchor with a span around it *)
Placements ==
  {p \in Chains \X Chains \X Chains : p[2] <= p[1] /\ p[1] <= p[3]}

InitCluster ==
  /\ num_chains \in 1 .. ClusterChains
  /\ \E n \in {k \in ClusterSizes : k <= num_chains} :
       \E at \in [1 .. n -> Placements] :
         /\ \A i, j \in 1 .. n : i < j => at[i][1] # at[j][1]
         /\ oracle \in [{SeqFromTo(at[k][2], at[k][3]) : k \in 1 .. n}
                          -> ClusterScores]
         /\ candidates =
              [k \in 1 .. n |->
                 SpanCandidate(at[k][1], at[k][2], at[k][3],
                               oracle[SeqFromTo(at[k][2], at[k][3])])]
  /\ timestamp = 0
  /\ prev_round_forbids = [is_none |-> TRUE, map |-> EmptyDict]
  /\ expanded = FALSE
  /\ seen_chains = {}
  /\ current_round_forbids = EmptyDict
  /\ marked_for_deletion = <<>>
  /\ pos = 0
  /\ pc = "round_start"
  /\ round_begin = <<>>
  /\ emitted = 0
  /\ contended = {}
  /\ call = NoCall
  /\ arbitration = NoArbitration
  /\ n_initial = Len(candidates)

(* the record of a call of a cluster operation: the list it found, the    *)
(* operation called before it and whether that one changed the list       *)
ClusterCall(op, cs, threshold, before) ==
  [op |-> op, pre |-> cs, threshold |-> threshold, after |-> before.op,
   after_moved |-> before.op # NoCall.op /\ before.pre # cs, count |-> 0]

ClRemoveDuplicates ==
  /\ pc = "round_start"
  /\ candidates' = remove_duplicate_candidates(candidates)
  /\ call' = ClusterCall("remove_duplicate_candidates", candidates, None, call)
  /\ UNCHANGED <<engine_vars, oracle, num_chains, n_initial>>

ClRerank ==
  /\ pc = "round_start"
  /\ candidates' = rerank_candidates(candidates)
  /\ call' = ClusterCall("rerank_candidates", candidates, None, call)
  /\ UNCHANGED <<engine_vars, oracle, num_chains, n_initial>>

(* merge_candidates on a cluster with candidates *)
ClMerge ==
  /\ pc = "round_start"
  /\ Len(candidates) > 0
  /\ \E threshold \in MergeThresholds :
       LET keep == MergeKeep(candidates, threshold)
           fresh == {context(keep[k]).chains : k \in 1 .. Len(keep)}
                      \ DOMAIN oracle
       IN \E o2 \in [fresh -> ClusterScores] :
            /\ oracle' = o2 @@ oracle
            /\ candidates' = merge_candidates(candidates, threshold, oracle')
            /\ call' = ClusterCall("merge_candidates", candidates, threshold,
                                   call)
  /\ UNCHANGED <<engine_vars, num_chains, n_initial>>

(* merge_candidates on an empty cluster: line 564 raises IndexError *)
ClMergeEmpty ==
  /\ pc = "round_start"
  /\ Len(candidates) = 0
  /\ pc' = "crashed"
  /\ call' = ClusterCall("merge_candidates", candidates, ScoreStep, call)
  /\ UNCHANGED <<candidates, timestamp, prev_round_forbids, expanded,
                 seen_chains, current_round_forbids, marked_for_deletion, pos,
                 round_begin, emitted, contended, arbitration, oracle,
                 num_chains, n_initial>>

ClusterNext ==
  \/ ClRemoveDuplicates
  \/ ClRerank
  \/ ClMerge
  \/ ClMergeEmpty

SpecCluster == InitCluster /\ [][ClusterNext]_vars

TypeOK == pc \in {"round_start", "for", "conflict", "claim", "clear", "done",
                  "crashed", "spinning"}

(* ------------------------------ properties ------------------------------ *)
Alive == 1 .. Len(candidates)
Selected(k) == ChainSet(context(candidates[k]))
Anchors(cs) == {cs[k].chain : k \in 1 .. Len(cs)}
ByAnchor(cs, a) == cs[CHOOSE k \in 1 .. Len(cs) : cs[k].chain = a]

(* C1: when the engine has terminated, the selected states of any two      *)
(* surviving candidates share no chain index.                              *)
C1_NoOverlapAtEnd ==
  pc = "done" =>
    \A i, j \in Alive : i # j => Selected(i) \cap Selected(j) = {}

(* C2: the engine terminates (it neither raises nor loops forever), and    *)
(* the number of rounds it executes never exceeds the number of initial    *)
(* candidates times the number of chains of the document.                  *)
C2_TerminatesWithinBound ==
  /\ pc \notin {"crashed", "spinning"}
  /\ emitted <= n_initial * num_chains

(* C3: after convergence, when survivor A scores strictly higher than      *)
(* survivor B and during the run both had a selected state containing the  *)
(* same chain, B's final selected state does not contain that chain.       *)
C3_PriorityRespected ==
  pc = "done" =>
    \A i, j \in Alive : \A u \in Chains :
      ( /\ score(candidates[i]) > score(candidates[j])
        /\ \/ <<candidates[i].chain, candidates[j].chain, u>> \in contended
           \/ <<candidates[j].chain, candidates[i].chain, u>> \in contended )
        => u \notin Selected(j)

(* C4: whenever the engine reads a candidate's selected state, that        *)
(* selected_state resolves to an entry of the candidate's history.         *)
C4_SelectedResolves ==
  /\ pc # "crashed"
  /\ pc \in {"conflict", "claim"} => HasContext(candidates[pos + 1])
  /\ pc \in {"round_start", "for", "clear", "done"} =>
       \A k \in Alive : HasContext(candidates[k])

(* The round that has just ended was followed by another round;            *)
(* round_begin holds the cluster as that round found it.                   *)
RoundJustContinued == pc = "round_start" /\ emitted > 0
Evicted == Anchors(round_begin) \ Anchors(candidates)
Froze ==
  {a \in Anchors(round_begin) \cap Anchors(candidates) :
     ByAnchor(round_begin, a).expandable /\ ~ByAnchor(candidates, a).expandable}
Grew ==
  {a \in Anchors(candidates) :
     /\ ByAnchor(candidates, a).expandable
     /\ context(ByAnchor(candidates, a)).improvement_score > Threshold}

(* C5 as claimed: in every round after which the engine continues, some    *)
(* candidate is evicted or changes from expandable to non-expandable.      *)
C5_EvictsOrFreezes == RoundJustContinued => (Evicted # {} \/ Froze # {})

(* C5 as amended: in every round after which the engine continues, some    *)
(* candidate is evicted, or changes from expandable to non-expandable, or  *)
(* ends the round still expandable on a state grown in that round, whose   *)
(* improvement density exceeds the threshold.                              *)
C5_EvictsFreezesOrGrows ==
  RoundJustContinued => (Evicted # {} \/ Froze # {} \/ Grew # {})

C5_Witness == RoundJustContinued /\ Evicted = {} /\ Froze = {} /\ Grew # {}

(* C6: a candidate that is not expandable stays not expandable, and no     *)
(* state is appended to its history, whichever operation is applied to it. *)
C6_ExpandableNeverReturns ==
  [][\A a \in Anchors(candidates) \cap Anchors(candidates') :
       ~ByAnchor(candidates, a).expandable =>
         /\ ~ByAnchor(candidates', a).expandable
         /\ Len(ByAnchor(candidates', a).history)
              <= Len(ByAnchor(candidates, a).history)]_vars

C6_Witness ==
  /\ call.op = "optimize"
  /\ ~call.pre.expandable
  /\ Len(call.pre.history) >= 2
  /\ call.ret # None
  /\ call.ret # PyIdx(call.pre.selected_state, Len(call.pre.history))

(* C7: every state in every candidate's history is one contiguous          *)
(* ascending run of chain indices inside the document that contains the    *)
(* candidate's anchor chain.                                               *)
Contiguous(ch) ==
  /\ Len(ch) >= 1
  /\ \A i \in 1 .. (Len(ch) - 1) : ch[i + 1] = ch[i] + 1

C7_ContiguousRuns ==
  \A k \in Alive : \A i \in 1 .. Len(candidates[k].history) :
    LET ch == candidates[k].history[i].chains
    IN /\ Contiguous(ch)
       /\ ch[1] >= 0
       /\ ch[Len(ch)] <= num_chains - 1
       /\ candidates[k].chain \in Range(ch)

C7_Witness ==
  \E k \in Alive : \E i \in 1 .. Len(candidates[k].history) :
    /\ Len(candidates[k].history[i].chains) >= 3
    /\ candidates[k].history[i].chains[1] < candidates[k].chain
    /\ candidates[k].chain
         < candidates[k].history[i].chains[Len(candidates[k].history[i].chains)]

(* the last call was a growth operation; its parent state and the state it *)
(* appended                                                                *)
IsGrowth ==
  call.op \in {"add_right_context", "add_left_context",
               "add_bidirectional_context"}
GrowsRight == call.op \in {"add_right_context", "add_bidirectional_context"}
GrowsLeft == call.op \in {"add_left_context", "add_bidirectional_context"}
CallParent == PyAt(call.pre.history, BranchFrom(call.pre, call.branch_from))
CallPost == candidates[call.k]
CallNew == CallPost.history[Len(CallPost.history)]
AtRightEnd == last_index(CallParent) = num_chains - 1
AtLeftEnd == first_index(CallParent) = 0
NothingToAdd == (GrowsRight => AtRightEnd) /\ (GrowsLeft => AtLeftEnd)

(* C8: a growth operation changes nothing when n <= 0 or the candidate is  *)
(* not expandable; otherwise it appends exactly one state and leaves every *)
(* earlier state, selected_state and expandable as they were.              *)
C8_GrowthFrame ==
  IsGrowth =>
    IF call.n <= 0 \/ ~call.pre.expandable
      THEN CallPost = call.pre
      ELSE /\ Len(CallPost.history) = Len(call.pre.history) + 1
           /\ SubSeq(CallPost.history, 1, Len(call.pre.history))
                = call.pre.history
           /\ CallPost.selected_state = call.pre.selected_state
           /\ CallPost.expandable = call.pre.expandable
           /\ CallPost.chain = call.pre.chain

C8_Witness ==
  /\ IsGrowth /\ call.n > 0 /\ call.pre.expandable
  /\ Len(CallPost.history) = 2
  /\ CallPost.history[2].chains # CallPost.history[1].chains
  /\ CallPost.history[1].improvement_score = Threshold

(* C9: growing an expandable candidate towards a side where the parent     *)
(* state already touches the end of the document appends a state that      *)
(* ends where the parent ends on that side; when no requested side has     *)
(* anything to add, the new state has the parent's chains, the parent's    *)
(* score and improvement density 0.                                        *)
C9_BoundaryGrowth ==
  (IsGrowth /\ call.n > 0 /\ call.pre.expandable) =>
    /\ Len(CallPost.history) = Len(call.pre.history) + 1
    /\ (GrowsRight /\ AtRightEnd) =>
         last_index(CallNew) = last_index(CallParent)
    /\ (GrowsLeft /\ AtLeftEnd) =>
         first_index(CallNew) = first_index(CallParent)
    /\ NothingToAdd =>
         /\ CallNew.chains = CallParent.chains
         /\ CallNew.score = CallParent.score
         /\ CallNew.improvement_score = 0

C9_Witness ==
  /\ IsGrowth /\ call.n > 0 /\ call.pre.expandable
  /\ NothingToAdd
  /\ CallParent.improvement_score = Threshold
  /\ num_chains > 1

(* C10: optimize selects a filter-passing state of maximal improvement     *)
(* density, taken after the selected state was given density = threshold;  *)
(* and when the selected state passes the filters, a different state is    *)
(* selected only if its density is strictly greater than the threshold.    *)
C10_OptimizeKeepsDefault ==
  (call.op = "optimize"
     /\ OptimizeTemp(call.pre, call.ts, call.constraints) # {}) =>
    LET temp == OptimizeTemp(call.pre, call.ts, call.constraints)
        h == call.post.history
        sel == call.pre.selected_state
    IN /\ call.ret \in temp
       /\ call.post.selected_state = call.ret
       /\ \A j \in temp :
            h[j + 1].improvement_score <= h[call.ret + 1].improvement_score
       /\ ( /\ sel # None
            /\ PyIdx(sel, Len(h)) \in temp
            /\ call.ret # PyIdx(sel, Len(h)) )
            => h[call.ret + 1].improvement_score > call.threshold

(* the last call was an optimize that found no state passing its filters *)
Exhausted ==
  /\ call.op = "optimize"
  /\ OptimizeTemp(call.pre, call.ts, call.constraints) = {}

(* two histories hold the same states in the same order: same chains,      *)
(* score, actions and timestamp (the density a state carries is rewritten  *)
(* by every optimize, line 235)                                            *)
SameStates(h1, h2) ==
  /\ Len(h1) = Len(h2)
  /\ \A i \in 1 .. Len(h1) :
       /\ h1[i].chains = h2[i].chains
       /\ h1[i].score = h2[i].score
       /\ h1[i].actions = h2[i].actions
       /\ h1[i].timestamp = h2[i].timestamp

(* C11: whenever optimize finds no state passing its filters, no error     *)
(* occurs: optimize returns None, the candidate is non-expandable after    *)
(* the call, its history holds the states it held before the call, and     *)
(* the engine does not raise afterwards.                                   *)
C11_ExhaustionIsBenign ==
  Exhausted =>
    /\ call.ret = None
    /\ ~call.post.expandable
    /\ SameStates(call.post.history, call.pre.history)
    /\ pc # "crashed"

(* the parts of C11 that hold: what the call itself does *)
C11_CallItself ==
  Exhausted =>
    /\ call.ret = None
    /\ ~call.post.expandable
    /\ SameStates(call.post.history, call.pre.history)

(* the latest pass of the conflict loop, for the candidate whose turn it is *)
LastPass == arbitration.last
PassOfTurn == LastPass.kind # None /\ LastPass.pos = pos
TurnBegin == context(arbitration.begin)
SameState(a, b) ==
  a.chains = b.chains /\ a.actions = b.actions /\ a.score = b.score
(* a one-chain contest of this round that the contesting candidate lost *)
Lost(m) == m[5] <= m[6]
(* the candidate at position p has just finished its turn *)
TurnJustDone(p) == pc = "for" /\ pos = p + 1

(* C12, the pass itself: after a pass that met exactly one claimed chain    *)
(* whose owner scores at least as much, the owner still owns the chain,    *)
(* nobody was marked for deletion by the pass, and the losing state is out *)
(* of the loser's history.                                                 *)
C12_LosingPass ==
  (PassOfTurn /\ pc = "conflict" /\ LastPass.kind = 1
     /\ score(LastPass.pre) <= LastPass.rivals[1]) =>
    /\ current_round_forbids[LastPass.units[1]] = LastPass.owners[1]
    /\ marked_for_deletion = LastPass.marked
    /\ candidates[pos + 1].history
         = PyPop(LastPass.pre.history, LastPass.pre.selected_state)

(* C12, no error: the loser's turn does not raise *)
C12_LoserFinishes ==
  \A m \in arbitration.met : (Lost(m) /\ m[1] = pos) => pc # "crashed"

(* C12, the outcome: the loser ends its turn on a state without the        *)
(* contested chain, which is a state grown this round or its state of the  *)
(* start of the turn with expandable = False.                              *)
C12_LoserOutcome ==
  \A m \in arbitration.met :
    (Lost(m) /\ TurnJustDone(m[1])) =>
      LET c == candidates[m[1] + 1]
      IN /\ m[2] \notin ChainSet(context(c))
         /\ \/ /\ ~SameState(context(c), TurnBegin)
               /\ context(c).timestamp = timestamp
               /\ Len(context(c).actions) = Len(TurnBegin.actions) + 1
            \/ /\ SameState(context(c), TurnBegin)
               /\ ~c.expandable

(* C12: when the state a candidate selects contains exactly one chain      *)
(* claimed this round by a candidate scoring at least as much, the owner   *)
(* keeps the chain and is not evicted by this conflict, the losing state   *)
(* is removed from the loser's history, and the loser finishes its turn on *)
(* a state without the contested chain: another state grown this round, or *)
(* its round-start state with expandable = False.                          *)
C12_LoserYields == C12_LosingPass /\ C12_LoserFinishes /\ C12_LoserOutcome

(* a one-chain contest of this round that the contesting candidate won *)
Won(m) == m[5] > m[6]
(* the round has ended: the survivors are chosen, and the ownership map    *)
(* and the contests met are still those of the round                       *)
RoundEnded == (pc = "round_start" /\ emitted > 0) \/ pc = "clear"

(* after a pass that met one claimed chain whose owner scores strictly     *)
(* less, the owner is marked, the chain maps to the winner's position and  *)
(* the winner keeps its state                                              *)
C13_OwnedAfterPass ==
  (PassOfTurn /\ LastPass.kind = 1
     /\ score(LastPass.pre) > LastPass.rivals[1]) =>
    /\ pc = "claim"
    /\ marked_for_deletion[LastPass.owners[1] + 1]
    /\ current_round_forbids[LastPass.units[1]] = pos
    /\ candidates[pos + 1] = LastPass.pre

PassOfTwo == PassOfTurn /\ LastPass.kind = 2
BeatsBoth ==
  /\ score(LastPass.pre) > LastPass.rivals[1]
  /\ score(LastPass.pre) > LastPass.rivals[2]

(* beating both owners: the state is kept, both owners are marked and both *)
(* chains map to the candidate's position                                  *)
WinsBoth ==
  (PassOfTwo /\ BeatsBoth) =>
    /\ candidates[pos + 1] = LastPass.pre
    /\ marked_for_deletion[LastPass.owners[1] + 1]
    /\ marked_for_deletion[LastPass.owners[2] + 1]
    /\ current_round_forbids[LastPass.units[1]] = pos
    /\ current_round_forbids[LastPass.units[2]] = pos

(* not beating both: nobody is marked by the pass and the candidate is     *)
(* non-expandable                                                          *)
LosesFrozen ==
  (PassOfTwo /\ ~BeatsBoth) =>
    /\ marked_for_deletion = LastPass.marked
    /\ ~candidates[pos + 1].expandable

(* C14 as claimed: with two claimed chains in its selected state the       *)
(* candidate keeps the state only if it scores strictly higher than both   *)
(* owners, who are then evicted while both chains map to its position;     *)
(* otherwise it is not marked for deletion, becomes non-expandable, and    *)
(* its selected state becomes the state it had at the start of the round.  *)
C14_RevertsToRoundStart ==
  /\ WinsBoth
  /\ LosesFrozen
  /\ (PassOfTwo /\ ~BeatsBoth) =>
       SameState(context(candidates[pos + 1]), context(round_begin[pos + 1]))

(* C14 read with the start of the turn in place of the start of the round *)
(* (backward-compatibility enforcement may have changed the state in       *)
(* between): ... otherwise it is not marked for deletion, becomes          *)
(* non-expandable, and its selected state becomes the state it had when    *)
(* its turn in the round began.  This fails too: when a lost one-chain     *)
(* pass has popped the state of the start of the turn (line 149), the      *)
(* first state of this timestamp that line 172 finds is a grown one.       *)
C14_RevertsToTurnStart ==
  /\ WinsBoth
  /\ LosesFrozen
  /\ (PassOfTwo /\ ~BeatsBoth) =>
       SameState(context(candidates[pos + 1]), TurnBegin)

C14_Witness ==
  /\ PassOfTwo /\ ~BeatsBoth
  /\ ~SameState(TurnBegin, context(round_begin[pos + 1]))
  /\ ~SameState(context(LastPass.pre), TurnBegin)

C14_WinReached == PassOfTwo /\ BeatsBoth

(* ---------------------- remove_duplicate_candidates --------------------- *)
Deduplicated == call.op = "remove_duplicate_candidates"

SameRange(a, b) ==
  /\ first_index(context(a)) = first_index(context(b))
  /\ last_index(context(a)) = last_index(context(b))

(* the places of the list whose range no earlier place has *)
FirstOfRange(cs) ==
  {k \in 1 .. Len(cs) : \A j \in 1 .. (k - 1) : ~SameRange(cs[j], cs[k])}

(* C15: after remove_duplicate_candidates no two candidates of the cluster *)
(* have the same index range; of the candidates that had the same range    *)
(* the first in list order is the one kept, a candidate with a range of    *)
(* its own is kept, and the kept candidates are in the order they had.     *)
C15_FirstOfEachRangeKept ==
  Deduplicated =>
    LET pre == call.pre
        firsts == FirstOfRange(pre)
    IN /\ \A i, j \in 1 .. Len(candidates) :
            i # j => ~SameRange(candidates[i], candidates[j])
       /\ Len(candidates) = Cardinality(firsts)
       /\ \E at \in [1 .. Len(candidates) -> firsts] :
            /\ \A i, j \in 1 .. Len(candidates) : i < j => at[i] < at[j]
            /\ \A i \in 1 .. Len(candidates) : candidates[i] = pre[at[i]]

(* a later candidate of a range was dropped from between two kept ones *)
C15_Witness ==
  /\ Deduplicated
  /\ Len(call.pre) = 3
  /\ Len(candidates) = 2
  /\ SameRange(call.pre[1], call.pre[2])
  /\ candidates = <<call.pre[1], call.pre[3]>>

(* --------------------------- rerank_candidates -------------------------- *)
Reranked == call.op = "rerank_candidates"
RerankedTwice == Reranked /\ call.after = "rerank_candidates"

(* C16: rerank_candidates is idempotent: the second of two calls in a row  *)
(* leaves the candidates in the order the first call gave them.            *)
C16_RerankIdempotent ==
  /\ RerankedTwice => candidates = call.pre
  /\ Reranked => rerank_candidates(candidates) = candidates

(* the first call moved candidates, two of them have the same score, and   *)
(* the second call has been made                                           *)
C16_Witness ==
  /\ RerankedTwice
  /\ call.after_moved
  /\ \E i, j \in 1 .. Len(candidates) :
       i < j /\ score(candidates[i]) = score(candidates[j])

(* ----------------------- the order between rounds ----------------------- *)
(* the place a candidate's anchor had in the list the round began with *)
PlaceAtRoundBegin(c) ==
  CHOOSE k \in 1 .. Len(round_begin) : round_begin[k].chain = c.chain

(* C17: at the start of every round after the first, and in every snapshot *)
(* a round emits, the candidates are in order of non-increasing score of   *)
(* the selected state, and candidates of equal score are in order of       *)
(* ascending anchor chain index; no anchor appears twice.                  *)
C17_RankedBetweenRounds ==
  RoundEnded =>
    \A i, j \in 1 .. Len(candidates) :
      i < j =>
        \/ score(candidates[i]) > score(candidates[j])
        \/ /\ score(candidates[i]) = score(candidates[j])
           /\ candidates[i].chain < candidates[j].chain

(* a round ended with two candidates of equal score and with a candidate   *)
(* ahead of one it was behind when the round began                         *)
C17_Witness ==
  /\ RoundEnded
  /\ \E i, j \in 1 .. Len(candidates) :
       i < j /\ score(candidates[i]) = score(candidates[j])
  /\ \E i, j \in 1 .. Len(candidates) :
       /\ i < j
       /\ PlaceAtRoundBegin(candidates[i]) > PlaceAtRoundBegin(candidates[j])

(* --------------------------- the empty cluster -------------------------- *)
EmptyCluster == n_initial = 0

(* C18: on a cluster whose candidate list is empty the engine performs no  *)
(* round, so it emits no snapshot, and it returns with the cluster as it   *)
(* was.                                                                    *)
C18_EmptyClusterNoRound ==
  EmptyCluster =>
    /\ emitted = 0
    /\ candidates = <<>>
    /\ pc # "crashed"

(* the part of C18 that the engine keeps: the empty cluster stays empty,   *)
(* nothing is raised, and a single snapshot is emitted                     *)
C18_EmptyClusterOneRound ==
  EmptyCluster =>
    /\ emitted <= 1
    /\ candidates = <<>>
    /\ pc # "crashed"
    /\ pc = "done" => emitted = 1

(* ------------------------ the histories on return ----------------------- *)
Terminated == pc = "done"

(* the candidate of the last round's list that has the anchor of c *)
AtLastRoundBegin(c) ==
  round_begin[CHOOSE k \in 1 .. Len(round_begin) :
                round_begin[k].chain = c.chain]

(* the step from the last snapshot to the return of the engine *)
Returns == pc = "clear" /\ pc' = "done"

(* C19: when the engine has terminated, the history of every surviving     *)
(* candidate has exactly one state, and that state has the span, the score *)
(* and the actions of the candidate's selected state in the last snapshot. *)
C19_PrunedToSelected ==
  /\ [](Terminated =>
          \A k \in 1 .. Len(candidates) : Len(candidates[k].history) = 1)
  /\ [][Returns =>
          /\ Len(candidates') = Len(candidates)
          /\ \A k \in 1 .. Len(candidates) :
               /\ candidates'[k].chain = candidates[k].chain
               /\ candidates'[k].history[1].chains = context(candidates[k]).chains
               /\ candidates'[k].history[1].score = context(candidates[k]).score
               /\ candidates'[k].history[1].actions
                    = context(candidates[k]).actions]_vars

(* the engine returned a candidate that went into the last round with a    *)
(* history of several states and a selected state that was not the seed    *)
C19_Witness ==
  /\ Terminated
  /\ \E k \in 1 .. Len(candidates) :
       /\ Len(AtLastRoundBegin(candidates[k]).history) >= 3
       /\ Len(candidates[k].history) = 1
       /\ Len(candidates[k].history[1].chains) >= 2

(* ---------------------------- merge_candidates -------------------------- *)
Merged == call.op = "merge_candidates" /\ pc # "crashed"

Span(c) == {context(c).chains[k] : k \in 1 .. Len(context(c).chains)}

(* the scores of a and b lie on the same side of the threshold t, a score  *)
(* equal to t being on both sides                                          *)
SameSide(a, b, t) ==
  \/ score(a) >= t /\ score(b) >= t
  \/ score(a) <= t /\ score(b) <= t

(* the spans of a and b overlap or touch: neither starts more than one     *)
(* index after the other ends                                              *)
OverlapOrTouch(a, b) ==
  /\ first_index(context(a)) <= last_index(context(b)) + 1
  /\ first_index(context(b)) <= last_index(context(a)) + 1

Mergeable(a, b, t) == SameSide(a, b, t) /\ OverlapOrTouch(a, b)

(* what a merge of the list pre at the threshold t owes in the list out *)
MergeContract(pre, t, out) ==
  LET In == 1 .. Len(pre)
      Out == 1 .. Len(out)
  IN /\ \A i, j \in In :
          (i # j /\ Mergeable(pre[i], pre[j], t)) =>
            \E k \in Out :
              /\ Span(pre[i]) \subseteq Span(out[k])
              /\ Span(pre[j]) \subseteq Span(out[k])
     /\ \A k \in Out :
          /\ context(out[k]).chains
               = SeqFromTo(first_index(context(out[k])),
                           last_index(context(out[k])))
          /\ Span(out[k])
               = UNION {Span(pre[i]) :
                          i \in {h \in In : Span(pre[h]) \subseteq Span(out[k])}}
     /\ \A i \in In :
          (\A j \in In \ {i} : ~Mergeable(pre[i], pre[j], t)) =>
            \E k \in Out :
              /\ out[k].chain = pre[i].chain
              /\ context(out[k]).chains = context(pre[i]).chains

(* C20: after merge_candidates(threshold) any two candidates of the input  *)
(* whose scores lie on the same side of the threshold and whose spans      *)
(* overlap or touch are represented by one candidate of the output, whose  *)
(* span is the contiguous union of the spans merged into it; a candidate   *)
(* of the input that is in this relation with no other one is kept apart   *)
(* with its span unchanged.                                                *)
C20_MergesOverlapping ==
  Merged => MergeContract(call.pre, call.threshold, candidates)

(* what merge_candidates keeps of C20: the contract holds for an input of  *)
(* at most two candidates, so for the pair of the specification's scenario *)
C20_MergesPair ==
  (Merged /\ Len(call.pre) <= 2) =>
    MergeContract(call.pre, call.threshold, candidates)

(* ------------------------- pruning the last round ----------------------- *)
(* line 177 is about to run for the candidate at position pos *)
AboutToClear == pc = "claim"

(* C21: whenever the engine calls clear_timestamp(r - 1) for a candidate   *)
(* in round r, the selected state of that candidate has timestamp r, so    *)
(* the call is never rejected: an engine run that stops on an exception    *)
(* stopped on the unresolved selected state of line 132, not on line 177.  *)
C21_ClearNeverRejected ==
  /\ AboutToClear =>
       /\ HasContext(candidates[pos + 1])
       /\ context(candidates[pos + 1]).timestamp = timestamp
       /\ ~clear_timestamp(candidates[pos + 1], timestamp - 1).err
  /\ pc = "crashed" => ~HasContext(candidates[pos + 1])

(* a candidate has just finished a turn of a later round in which line 177 *)
(* removed states of the round before from its history                     *)
C21_Witness ==
  /\ timestamp >= 1
  /\ pc = "for" /\ pos >= 1
  /\ arbitration.begin.chain = candidates[pos].chain
  /\ \E k \in 1 .. Len(arbitration.begin.history) :
       /\ k # PyIdx(arbitration.begin.selected_state,
                   Len(arbitration.begin.history)) + 1
       /\ arbitration.begin.history[k].timestamp = timestamp - 1
  /\ \A k \in 1 .. Len(candidates[pos].history) :
       candidates[pos].history[k].timestamp = timestamp

(* ----------------------- a claimed anchor at a turn --------------------- *)
(* the turn of the candidate at position pos is about to begin *)
TurnComes == pc = "for" /\ pos < Len(candidates)

(* ... and its anchor is claimed in this round's ownership map by a        *)
(* candidate at an earlier position                                        *)
AnchorClaimed ==
  /\ TurnComes
  /\ ~marked_for_deletion[pos + 1]
  /\ candidates[pos + 1].chain \in DOMAIN current_round_forbids
  /\ current_round_forbids[candidates[pos + 1].chain] < pos

(* the candidates lines 105-107 see: no candidate that is not expandable   *)
(* comes to its turn with its anchor claimed.  This fails: a candidate     *)
(* that line 172 left on a grown state covering a frozen neighbour's       *)
(* anchor is ranked before that neighbour on equal scores, and lines       *)
(* 98-102 then let both claim the anchor.                                  *)
FrozenNeverClaimed == AnchorClaimed => candidates[pos + 1].expandable

InRound == {"for", "conflict", "claim"}
RoundEnds == pc = "for" /\ pc' \in {"round_start", "clear"}

(* C22: a candidate whose anchor is, when its turn comes, claimed in the   *)
(* round's ownership map by a candidate at an earlier position is marked   *)
(* for deletion without being grown, whether it is expandable or not; the  *)
(* mark stays until the end of the round, and the candidate is not in the  *)
(* list the round leaves.                                                  *)
C22_ClaimedAnchorEvicted ==
  /\ [][AnchorClaimed =>
          /\ marked_for_deletion'[pos + 1]
          /\ candidates' = candidates
          /\ pos' = pos + 1]_vars
  /\ [][(pc \in InRound /\ pc' \in InRound) =>
          \A k \in 1 .. Len(marked_for_deletion) :
            marked_for_deletion[k] =>
              /\ marked_for_deletion'[k]
              /\ candidates'[k].chain = candidates[k].chain]_vars
  /\ [][RoundEnds =>
          \A k \in 1 .. Len(marked_for_deletion) :
            marked_for_deletion[k] =>
              candidates[k].chain \notin Anchors(candidates')]_vars

(* the part of C22 that holds: the same for expandable candidates only *)
C22_ExpandableEvicted ==
  /\ [][(AnchorClaimed /\ candidates[pos + 1].expandable) =>
          /\ marked_for_deletion'[pos + 1]
          /\ candidates' = candidates
          /\ pos' = pos + 1]_vars
  /\ [][(pc \in InRound /\ pc' \in InRound) =>
          \A k \in 1 .. Len(marked_for_deletion) :
            marked_for_deletion[k] =>
              /\ marked_for_deletion'[k]
              /\ candidates'[k].chain = candidates[k].chain]_vars
  /\ [][RoundEnds =>
          \A k \in 1 .. Len(marked_for_deletion) :
            marked_for_deletion[k] =>
              candidates[k].chain \notin Anchors(candidates')]_vars

(* in the first round, where nothing else marks a candidate that has not   *)
(* had its turn, a candidate that was never grown has just been marked     *)
(* because an earlier candidate holds its anchor                           *)
C22_Witness ==
  /\ pc = "for" /\ pos >= 1
  /\ timestamp = 0
  /\ marked_for_deletion[pos]
  /\ Len(candidates[pos].history) = 1
  /\ candidates[pos].chain \in DOMAIN current_round_forbids
  /\ current_round_forbids[candidates[pos].chain] < pos - 1

(* --------------------- the claims of a frozen candidate ----------------- *)
(* c went into the round that has just ended as a non-expandable candidate *)
(* and is in the list the round left: it took its turn at lines 98-102     *)
FrozenSurvivor(c) == ~AtLastRoundBegin(c).expandable

(* C23: when a non-expandable candidate F has taken its turn in a round    *)
(* and survived it, no surviving candidate processed after F has, at the   *)
(* end of the round, a selected state with a unit of F's selected state.   *)
C23_FrozenUnitsKept ==
  RoundEnded =>
    \A i, j \in 1 .. Len(candidates) :
      (/\ FrozenSurvivor(candidates[i])
       /\ PlaceAtRoundBegin(candidates[j]) > PlaceAtRoundBegin(candidates[i]))
        => Span(candidates[i]) \cap Span(candidates[j]) = {}

(* --------------------------- the branch policy -------------------------- *)
(* lines 109-128 have just run for the candidate at position pos *)
JustGrown == pc = "conflict" /\ arbitration.last = NoPass

(* the directions the policy owes to a parent state *)
OwedDirs(parent) ==
  IF parent.actions = <<>> THEN <<"left", "right", "bidirectional">>
  ELSE LET last == parent.actions[Len(parent.actions)][1]
       IN IF last = "bidirectional" THEN <<"left", "right", "bidirectional">>
          ELSE <<last>>

(* the span of parent grown by one chain in a direction, within the        *)
(* document                                                                *)
OwedChains(parent, dir) ==
  LET lo == IF dir \in {"left", "bidirectional"}
              THEN Max(first_index(parent) - 1, 0) ELSE first_index(parent)
      hi == IF dir \in {"right", "bidirectional"}
              THEN Min(last_index(parent) + 1, num_chains - 1)
              ELSE last_index(parent)
  IN SeqFromTo(lo, hi)

GrownTurnDone ==
  /\ pc = "for" /\ pos >= 1
  /\ ~marked_for_deletion[pos]
  /\ round_begin[pos].expandable

(* the states lines 118-126 appended in that turn, as they were appended *)
GrownStates ==
  LET c1 == Solidify(arbitration.begin, timestamp)
      g == GrowBranches(c1, timestamp, oracle).history
  IN SubSeq(g, Len(c1.history) + 1, Len(g))

NoGrowthPays ==
  \A i \in 1 .. Len(GrownStates) :
    GrownStates[i].improvement_score <= Threshold

JustProcessed == candidates[pos]

(* C25: if none of the states a candidate grows in a round has an          *)
(* improvement density strictly greater than the threshold, then at the    *)
(* end of its processing in that round its selected state is the state it  *)
(* had at the start of the round, that state is still in its history, and  *)
(* the candidate is non-expandable.                                        *)
C25_KeepsRoundStartState ==
  (GrownTurnDone /\ NoGrowthPays) =>
    /\ SameState(context(JustProcessed), context(round_begin[pos]))
    /\ ~JustProcessed.expandable

(* the same, against the state the candidate had when its turn began       *)
(* (backward-compatibility enforcement may have changed it since the       *)
(* start of the round).  This fails too: the state kept by line 128 may    *)
(* hold a chain claimed this round, the lost pass pops it (line 149) and   *)
(* the candidate ends its turn on a grown state that did not pay.          *)
C25_KeepsTurnStartState ==
  (GrownTurnDone /\ NoGrowthPays) =>
    /\ SameState(context(JustProcessed), TurnBegin)
    /\ ~JustProcessed.expandable
(* --------------------- how the conflict loop ends ----------------------- *)
(* the loop of lines 131-175 has just been left for the candidate at       *)
(* position pos                                                            *)
LoopExited == pc = "claim"
LoopRaises == pc = "crashed"
LoopForever == pc = "spinning"

(* no chain of the selected state is claimed by another position *)
Resolved(c) ==
  \A ch \in ChainSet(context(c)) :
    ch \in seen_chains => current_round_forbids[ch] = pos
(* non-expandable on the state of the start of the round (or of the turn,  *)
(* where backward-compatibility enforcement moved it in between)           *)
FrozenAtStart(c) ==
  /\ ~c.expandable
  /\ \/ SameState(context(c), context(round_begin[pos + 1]))
     \/ SameState(context(c), TurnBegin)

(* C26: for every candidate in every round the conflict loop is left after *)
(* finitely many passes, whatever the number of claimed chains in the      *)
(* selected state, and it is left resolved (no conflict, or conflict won), *)
(* frozen at the round-start state, or evicted.                            *)
C26_LoopExits ==
  /\ ~LoopRaises
  /\ ~LoopForever
  /\ LoopExited =>
       LET c == candidates[pos + 1]
       IN \/ Resolved(c)
          \/ FrozenAtStart(c)
          \/ marked_for_deletion[pos + 1]

(* the parts of C26, one by one *)
C26_NeverRaises == ~LoopRaises
C26_NeverForever == ~LoopForever
C26_Outcomes ==
  LoopExited =>
    LET c == candidates[pos + 1]
    IN Resolved(c) \/ FrozenAtStart(c) \/ marked_for_deletion[pos + 1]
(* ------------------------ what a turn leaves owned ---------------------- *)
(* the candidate at position pos - 1 has just finished its turn, grown     *)
(* (lines 109-204) or non-expandable (lines 98-102)                        *)
TurnFinished == pc = "for" /\ pos >= 1 /\ ~marked_for_deletion[pos]

Owns(p, c) ==
  \A ch \in ChainSet(context(c)) :
    ch \in DOMAIN current_round_forbids /\ current_round_forbids[ch] = p

(* C27: immediately after the candidate at position p has finished its     *)
(* turn in a round, grown or non-expandable, every chain of its selected   *)
(* state is a key of the round's ownership map and maps to p.              *)
C27_OwnsItsState == TurnFinished => Owns(pos - 1, candidates[pos])

(* the part of C27 that holds: a non-expandable candidate's turn *)
C27_FrozenOwnsItsState ==
  (TurnFinished /\ ~round_begin[pos].expandable) =>
    Owns(pos - 1, candidates[pos])
(* ------------------ backward-compatibility enforcement ------------------ *)
(* the candidate at position pos - 1 has just finished a turn in which it  *)
(* was grown, in a round that has a previous round                         *)
GrownTurnEnforced ==
  /\ TurnFinished
  /\ round_begin[pos].expandable
  /\ ~prev_round_forbids.is_none

(* the positions below p that the previous round's ownership map gives a   *)
(* chain of c's selected state                                             *)
HeldBelow(p, c) ==
  {prev_round_forbids.map[ch] :
     ch \in {u \in ChainSet(context(c)) \cap DOMAIN prev_round_forbids.map :
               prev_round_forbids.map[u] > p}}

ClearOfClaims(c) ==
  /\ HasContext(c)
  /\ ChainSet(context(c)) \cap DOMAIN current_round_forbids = {}

(* C28: after a grown candidate at position p has claimed its chains in    *)
(* round r, every candidate at a position q > p that held one of those     *)
(* chains in the previous round's ownership map is, at the end of p's      *)
(* turn, either marked for deletion or on a selected state with no chain   *)
(* claimed so far in round r.                                              *)
C28_BelowYield ==
  GrownTurnEnforced =>
    \A q \in HeldBelow(pos - 1, candidates[pos]) :
      \/ marked_for_deletion[q + 1]
      \/ ClearOfClaims(candidates[q + 1])

(* a candidate below was moved to another state and stays in the round *)
C28_Witness ==
  /\ GrownTurnEnforced
  /\ \E q \in HeldBelow(pos - 1, candidates[pos]) :
       /\ ~marked_for_deletion[q + 1]
       /\ ~SameState(context(candidates[q + 1]), context(round_begin[q + 1]))

(* a candidate below found no state and was marked *)
C28_MarkReached ==
  /\ GrownTurnEnforced
  /\ \E q \in HeldBelow(pos - 1, candidates[pos]) :
       /\ marked_for_deletion[q + 1]
       /\ call.op = "optimize" /\ call.ret = None
(* ----------------------- the history a turn leaves ---------------------- *)
(* the candidate at position pos - 1 has just been processed for growth *)
GrowthProcessed == TurnFinished /\ round_begin[pos].expandable

OnlyThisRound(h) ==
  /\ \A k \in 1 .. Len(h) : h[k].timestamp = timestamp
  /\ Len(h) <= 4

GrownThisTurn(st) ==
  \E i \in 1 .. Len(GrownStates) : SameState(st, GrownStates[i])

(* C29 as claimed: immediately after a candidate has been processed for    *)
(* growth in round r its history holds only states of timestamp r, and at  *)
(* most four of them: the state it had at the start of the round and       *)
(* states grown in round r.                                                *)
C29_RoundStartAndGrown ==
  GrowthProcessed =>
    LET h == candidates[pos].history
    IN /\ OnlyThisRound(h)
       /\ \A k \in 1 .. Len(h) :
            \/ SameState(h[k], context(round_begin[pos]))
            \/ GrownThisTurn(h[k])

(* C29 as amended: ... the state it had when its turn began and states     *)
(* grown in round r.                                                       *)
C29_TurnStartAndGrown ==
  GrowthProcessed =>
    LET h == candidates[pos].history
    IN /\ OnlyThisRound(h)
       /\ \A k \in 1 .. Len(h) :
            \/ SameState(h[k], TurnBegin)
            \/ GrownThisTurn(h[k])

(* in a later round, a candidate that backward-compatibility enforcement   *)
(* had moved came to its turn with states of the round before, and its     *)
(* history now starts with the state it had when the turn began            *)
C29_Witness ==
  /\ GrowthProcessed
  /\ timestamp >= 1
  /\ Len(arbitration.begin.history) >= 2
  /\ ~SameState(TurnBegin, context(round_begin[pos]))
  /\ SameState(candidates[pos].history[1], TurnBegin)
  /\ Len(candidates[pos].history) >= 2
(* --------------------------- when the engine stops ---------------------- *)
(* every candidate of the round has had its turn (line 204 was the last    *)
(* line run, or the list is empty)                                         *)
AtRoundEnd == pc = "for" /\ pos >= Len(candidates)

(* the candidate at place k was processed for growth in this round (its    *)
(* selected state carries the round's timestamp, line 116, next to a state *)
(* the round appended) and is still expandable                             *)
GrewInRound(k) ==
  /\ HasContext(candidates[k])
  /\ candidates[k].expandable
  /\ round_begin[k].expandable
  /\ context(candidates[k]).timestamp = timestamp
  /\ Len(candidates[k].history) >= 2

SomebodyGrew == \E k \in 1 .. Len(candidates) : GrewInRound(k)

(* C30: the engine stops at the end of a round exactly when no candidate   *)
(* grew during the round (was processed and is still expandable            *)
(* afterwards); if at least one grew, the round counter goes up by one and *)
(* another round is run.                                                   *)
C30_StopsIffNobodyGrew ==
  /\ [][AtRoundEnd =>
          IF SomebodyGrew
            THEN pc' = "round_start" /\ timestamp' = timestamp + 1
            ELSE pc' = "clear" /\ timestamp' = timestamp]_vars
  /\ [][pc = "round_start" =>
          /\ pc' = "for" /\ pos' = 0
          /\ timestamp' = timestamp]_vars
  /\ [](AtRoundEnd => timestamp < MaxRounds)

(* the engine went on after one round and has stopped after a later one *)
C30_Witness == pc = "clear" /\ timestamp >= 1

(* C30 read on the spans: the engine stops exactly when no candidate that  *)
(* stays in the round ends it on a longer selected state than it began it  *)
(* with.                                                                   *)
SpanGrew(k) ==
  /\ HasContext(candidates[k])
  /\ ~marked_for_deletion[k]
  /\ Len(context(candidates[k]).chains) > Len(context(round_begin[k]).chains)

C30_StopsIffNoSpanGrew ==
  [][AtRoundEnd =>
       ((pc' = "clear") <=> ~(\E k \in 1 .. Len(candidates) : SpanGrew(k)))
    ]_vars
(* ------------------------ what clear_timestamp keeps -------------------- *)
Cleared == call.op = "clear_timestamp"

(* the 0-based indices of the states of h that clear_timestamp(ts) keeps *)
KeptIndices(h, ts) == {i \in 0 .. (Len(h) - 1) : h[i + 1].timestamp # ts}

(* the place a kept index has among the kept ones *)
PlaceAmongKept(h, ts, i) == Cardinality({j \in KeptIndices(h, ts) : j < i})

(* post is pre with exactly the states of another timestamp than ts, in    *)
(* their order, and selects the state that pre selected                    *)
ClearFrame(pre, ts, post) ==
  LET kept == KeptIndices(pre.history, ts)
      sel == PyIdx(pre.selected_state, Len(pre.history))
  IN /\ Len(post.history) = Cardinality(kept)
     /\ \A i \in kept :
          post.history[PlaceAmongKept(pre.history, ts, i) + 1]
            = pre.history[i + 1]
     /\ sel \in kept
     /\ HasContext(post)
     /\ PyIdx(post.selected_state, Len(post.history))
          = PlaceAmongKept(pre.history, ts, sel)

(* C31: when clear_timestamp(t) is accepted (the selected state's          *)
(* timestamp is not t), afterwards the history consists of exactly the     *)
(* prior states whose timestamp is not t, in their prior order, and the    *)
(* candidate selects the same state as before the call, whether            *)
(* selected_state was an explicit index or the -1 sentinel.                *)
C31_ClearFrame ==
  Cleared /\ context(call.pre).timestamp # call.ts =>
    /\ ~call.err
    /\ ClearFrame(call.pre, call.ts, candidates[call.k])

(* an accepted call on an explicit index that removed a state before the   *)
(* selected one and a state after it                                       *)
C31_Witness ==
  /\ Cleared /\ ~call.err
  /\ call.pre.selected_state >= 0
  /\ \E i, j \in 0 .. (Len(call.pre.history) - 1) :
       /\ i < call.pre.selected_state /\ call.pre.selected_state < j
       /\ call.pre.history[i + 1].timestamp = call.ts
       /\ call.pre.history[j + 1].timestamp = call.ts
  /\ candidates[call.k].selected_state = call.pre.selected_state - 1

(* an accepted call on the -1 sentinel that removed states *)
C31_LatestReached ==
  ~(/\ Cleared /\ ~call.err
    /\ call.pre.selected_state = Latest
    /\ Len(candidates[call.k].history) < Len(call.pre.history)
    /\ Len(call.pre.history) >= 3
    /\ candidates[call.k].selected_state = Latest)

(* a rejected call leaves the candidate as it was *)
C31_RejectedUnchanged ==
  Cleared /\ call.err =>
    /\ context(call.pre).timestamp = call.ts
    /\ candidates[call.k] = call.pre

(* the same frame for the call of line 177 in the engine *)
C31_EngineClearFrame ==
  [][pc = "claim" /\ pc' = "for" =>
       ClearFrame(candidates[pos + 1], timestamp - 1, candidates'[pos + 1])]_vars

(* line 177 removed a state before the selected one *)
C31_EngineReached ==
  ~(/\ pc = "claim"
    /\ ~clear_timestamp(candidates[pos + 1], timestamp - 1).err
    /\ clear_timestamp(candidates[pos + 1], timestamp - 1).c.selected_state
         < candidates[pos + 1].selected_state)

(* ------------------------- optimize called again ------------------------ *)
(* two calls of optimize in succession on the same candidate with the same *)
(* round filter, forbidden units and threshold, neither with               *)
(* stop_expansion                                                          *)
OptimizedAgain ==
  /\ call.op = "optimize" /\ call'.op = "optimize"
  /\ call'.k = call.k /\ call'.pre = call.post
  /\ ~call.stop_expansion /\ ~call'.stop_expansion
  /\ call'.ts = call.ts
  /\ call'.constraints = call.constraints
  /\ call'.threshold = call.threshold

(* C32, first half: calling optimize twice in succession with the same     *)
(* round filter, the same forbidden units and the same threshold (without  *)
(* stop_expansion) selects the same state both times.                      *)
C32_SameStateTwice ==
  [][OptimizedAgain => call'.post.selected_state = call.post.selected_state]_vars

(* after the call recorded in c, no other state that passes its filters    *)
(* has a density of at least the threshold                                 *)
NothingElseAtThreshold(c) ==
  \A i \in OptimizeTemp(c.post, c.ts, c.constraints) :
    i # PyIdx(c.post.selected_state, Len(c.post.history)) =>
      c.post.history[i + 1].improvement_score < c.threshold

(* C32 as amended: ... selects the same state both times when the first    *)
(* call leaves no other state that passes the filters with a density of    *)
(* at least the threshold.                                                 *)
C32_SameStateWhenNothingElse ==
  [][OptimizedAgain /\ NothingElseAtThreshold(call) =>
       call'.post.selected_state = call.post.selected_state]_vars

(* optimize has been called twice in succession on a history of three      *)
(* states, two of them passing the filters, and kept its selection         *)
C32_Witness ==
  /\ call.op = "optimize" /\ ~call.stop_expansion
  /\ call.pre.selected_state = call.ret
  /\ call.pre.history[call.ret + 1].improvement_score = call.threshold
  /\ Len(call.pre.history) >= 3
  /\ Cardinality(OptimizeTemp(call.pre, call.ts, call.constraints)) >= 2
  /\ NothingElseAtThreshold(call)

(* the number of units of the context of the candidate at position p that  *)
(* the ownership map of the round before gives to the position q below it  *)
TimesEnforced(c, p, q) ==
  IF prev_round_forbids.is_none \/ q = 0 \/ q <= p THEN 0
  ELSE Cardinality({ch \in ChainSet(context(c)) :
                      /\ ch \in DOMAIN prev_round_forbids.map
                      /\ prev_round_forbids.map[ch] = q})

(* lines 177-200 have just run for the candidate at position pos *)
Enforced == pc = "claim" /\ pc' = "for"

(* C32, second half: backward-compatibility enforcement applied to the     *)
(* same lower-priority candidate once per contested unit within one        *)
(* higher-priority candidate's turn leaves it on the same state as         *)
(* applying it once.                                                       *)
C32_EnforcedAsOnce ==
  [][Enforced =>
       \A q \in (pos + 1) .. (Len(candidates) - 1) :
         TimesEnforced(candidates'[pos + 1], pos, q) >= 2 =>
           candidates'[q + 1].selected_state
             = optimize(candidates[q + 1], FALSE, None,
                        DOMAIN current_round_forbids', Threshold).c.selected_state]_vars

(* enforcement was applied twice to one candidate in one turn *)
C32_TwiceReached ==
  [][~(/\ Enforced
       /\ \E q \in (pos + 1) .. (Len(candidates) - 1) :
            TimesEnforced(candidates'[pos + 1], pos, q) >= 2)]_vars

(* --------------------------- frozen candidates -------------------------- *)
(* the candidate c of the cluster began the round that has just ended      *)
(* non-expandable                                                          *)
BeganFrozen(c) == ~AtLastRoundBegin(c).expandable

(* C33: once a candidate has become non-expandable, the span of its        *)
(* selected state is the same at the end of every later round in which it  *)
(* is still in the cluster: a frozen candidate is kept in place or         *)
(* evicted, never moved to a different state.                              *)
C33_FrozenStays ==
  RoundEnded =>
    \A k \in 1 .. Len(candidates) :
      BeganFrozen(candidates[k]) =>
        Span(candidates[k]) = Span(AtLastRoundBegin(candidates[k]))

(* a frozen candidate has been made to select again by line 198 and        *)
(* survived the round                                                      *)
C33_EnforcedReached ==
  ~(/\ RoundEnded
    /\ \E k \in 1 .. Len(candidates) :
         /\ BeganFrozen(candidates[k])
         /\ \E t \in contended : t[2] = candidates[k].chain)

(* a later round in which a candidate grew has ended with a candidate that *)
(* began it frozen still in the cluster, on the span it had                *)
C33_Witness ==
  /\ RoundEnded /\ timestamp >= 1
  /\ \E j, k \in 1 .. Len(candidates) :
       /\ BeganFrozen(candidates[k])
       /\ Span(candidates[k]) = Span(AtLastRoundBegin(candidates[k]))
       /\ ~BeganFrozen(candidates[j])
       /\ Span(candidates[j]) # Span(AtLastRoundBegin(candidates[j]))

(* a candidate that began the round frozen has been evicted in it *)
C33_EvictionReached ==
  ~(/\ RoundEnded
    /\ \E k \in 1 .. Len(round_begin) :
         /\ ~round_begin[k].expandable
         /\ round_begin[k].chain \notin Anchors(candidates))

(* every state a frozen candidate keeps at the end of a round contains its *)
(* selected state, so that enforcement finds it no other place             *)
C33_NowhereElse ==
  RoundEnded =>
    \A k \in 1 .. Len(candidates) :
      ~candidates[k].expandable =>
        \A i \in 1 .. Len(candidates[k].history) :
          Span(candidates[k]) \subseteq ChainSet(candidates[k].history[i])

(* ---------------------------- at termination ---------------------------- *)
(* C34: when the engine terminates on a non-empty cluster, every surviving *)
(* candidate is non-expandable.                                            *)
C34_SurvivorsFrozen ==
  (Terminated /\ Len(candidates) > 0) =>
    \A k \in 1 .. Len(candidates) : ~candidates[k].expandable

(* the engine has terminated after several rounds with a survivor that     *)
(* froze in the last round and a survivor that was frozen before it        *)
C34_Witness ==
  /\ Terminated /\ timestamp >= 1
  /\ \E j, k \in 1 .. Len(candidates) :
       /\ AtLastRoundBegin(candidates[j]).expandable
       /\ ~candidates[j].expandable
       /\ ~AtLastRoundBegin(candidates[k]).expandable
       /\ ~candidates[k].expandable

(* the same at the last snapshot, before the histories are pruned *)
C34_FrozenAtLastSnapshot ==
  pc = "clear" => \A k \in 1 .. Len(candidates) : ~candidates[k].expandable

====
